---------------------------- MODULE Spec2Model ----------------------------
(***************************************************************************)
(* A model of docmost-cli: the HTTP client (src/src/docmost/client.py),    *)
(* the configuration and credential stores it resolves its URL and token   *)
(* from (config.py, auth.py), login and logout (commands/auth.py), the     *)
(* page create, update, move and export workflows (commands/pages.py) and  *)
(* the handlers that make one client call (commands/*.py).                 *)
(*                                                                         *)
(* Strings that the code takes apart (URLs, tokens, file contents) are     *)
(* sequences of symbols; a JSON value is a tagged record; Python's None is *)
(* an optional value with none = TRUE.                                     *)
(***************************************************************************)
EXTENDS Integers, Sequences, FiniteSets, TLC

VARIABLES
    environ,       \* os.environ: DOCMOST_URL, DOCMOST_TOKEN, DOCMOST_FORMAT, DOCMOST_SPACE
    configFile,    \* ~/.config/docmost/config.yaml: whether it exists and its keys
    tokenFile,     \* ~/.config/docmost/token: whether it exists, its text, its mode
    client,        \* the DocmostClient instance of this invocation, if constructed
    ctorArgs,      \* the arguments of the last DocmostClient(...) call
    wire,          \* the HTTP requests issued so far, in order
    lastResponse,  \* what the transport gave back for the last request
    outcome,       \* how the last operation ended: a return value or an exception
    stdout,        \* the messages printed so far, in order
    exitCode,      \* the exit status of the last command; -1 before any has ended
    cmd,           \* the pages command that is running: its options, locals and position
    fs             \* the content files: the staged temporary file and the caller's file

vars == <<environ, configFile, tokenFile, client, ctorArgs, wire, lastResponse, outcome,
          stdout, exitCode, cmd, fs>>
storeVars == <<environ, configFile, tokenFile>>
cmdVars == <<stdout, exitCode>>
pageVars == <<cmd, fs>>

-----------------------------------------------------------------------------
(* Bounds of the model.                                                    *)

MaxUrlLen == 3
MaxRequests == 2

-----------------------------------------------------------------------------
(* Python values.                                                          *)

\* Optional[str]: None, or a string given as a sequence of symbols.
None == [none |-> TRUE, v |-> <<>>]
Some(s) == [none |-> FALSE, v |-> s]

\* Python truthiness of an Optional[str]: None and "" are falsy.
Truthy(o) == (~o.none) /\ o.v # <<>>

\* Python's `a or b`.
PyOr(a, b) == IF Truthy(a) THEN a ELSE b

\* dict assignment d[k] = v.
Put(d, k, v) == [x \in (DOMAIN d) \cup {k} |-> IF x = k THEN v ELSE d[x]]

EmptyDict == [x \in {} |-> <<>>]

\* A decoded JSON value: t is its Python type, m the items of a dict, l the
\* elements of a list, s the symbols of a str.  JInt is a non-zero number;
\* a bool is true when s is not empty.
JMap(m) == [t |-> "dict", m |-> m, l |-> <<>>, s |-> <<>>]
JList(l) == [t |-> "list", m |-> EmptyDict, l |-> l, s |-> <<>>]
JStr(s) == [t |-> "str", m |-> EmptyDict, l |-> <<>>, s |-> s]
JInt == [t |-> "int", m |-> EmptyDict, l |-> <<>>, s |-> <<>>]
JTrue == [t |-> "bool", m |-> EmptyDict, l |-> <<>>, s |-> <<"true">>]
JFalse == [t |-> "bool", m |-> EmptyDict, l |-> <<>>, s |-> <<>>]
JNull == [t |-> "NoneType", m |-> EmptyDict, l |-> <<>>, s |-> <<>>]

\* A one-symbol str.
Word(w) == JStr(<<w>>)

\* Python's `key in data`: a key of a dict, an element of a list, a substring
\* of a str (here: one of its symbols); any other type is not iterable.
PyInDefined(data) == data.t \in {"dict", "list", "str"}
PyIn(key, data) ==
    CASE data.t = "dict" -> key \in DOMAIN data.m
      [] data.t = "list" -> \E i \in 1..Len(data.l) : data.l[i] = Word(key)
      [] data.t = "str" -> \E i \in 1..Len(data.s) : data.s[i] = key
      [] OTHER -> FALSE

\* Whether `data.get(...)` exists: only dict has the method.
HasGet(data) == data.t = "dict"

\* dict.get(key, default).
PyGet(data, key, default) == IF key \in DOMAIN data.m THEN data.m[key] ELSE default

-----------------------------------------------------------------------------
(* Outcomes of an operation: nothing yet, a returned value, or an          *)
(* exception with DocmostError's attributes (status_code 0 stands for      *)
(* None).                                                                  *)

NoOutcome == [kind |-> "none", exc |-> "", message |-> JNull, status_code |-> 0, value |-> JNull]
Return(v) == [kind |-> "return", exc |-> "", message |-> JNull, status_code |-> 0, value |-> v]
Raise(exc, message, status_code, response) ==
    [kind |-> "raise", exc |-> exc, message |-> message, status_code |-> status_code,
     value |-> response]

\* An exception that is not of the DocmostError family.
RaiseOther(exc) == Raise(exc, JNull, 0, JNull)

\* client.py:11-35: DocmostError and its three subclasses.
DocmostErrorFamily == {"DocmostError", "AuthenticationError", "NotFoundError", "ValidationError"}

-----------------------------------------------------------------------------
(* Responses.                                                              *)

\* What the transport hands back: a response with a status and a body that
\* is JSON (json) or not (text), and its cookies; or no response at all.
JsonResponse(status, json) ==
    [arrived |-> TRUE, status |-> status, isJson |-> TRUE, json |-> json, text |-> <<>>,
     cookie |-> None]
TextResponse(status, text) ==
    [arrived |-> TRUE, status |-> status, isJson |-> FALSE, json |-> JNull, text |-> text,
     cookie |-> None]
NoResponse ==
    [arrived |-> FALSE, status |-> 0, isJson |-> FALSE, json |-> JNull, text |-> <<>>,
     cookie |-> None]

\* client.py:68-71: response.json(), or {"error": response.text}.
DecodeBodyDropText(response) ==
    IF response.isJson THEN response.json ELSE JMap([k \in {"error"} |-> JStr(<<>>)])
DecodeBody(response) ==
    IF response.isJson THEN response.json ELSE JMap([k \in {"error"} |-> JStr(response.text)])

\* The message of an error that takes it from the body: data.get("message",
\* default).  On a body without .get the attribute lookup raises.
ApiErrorDefault(status) == JStr(<<"API error: ", ToString(status)>>)

ErrorFromBody(exc, data, default, status) ==
    IF HasGet(data)
    THEN Raise(exc, PyGet(data, "message", default), status, data)
    ELSE RaiseOther("AttributeError")

\* client.py:101-105: the envelope test and the unwrapping.
Unwrap(data) ==
    IF ~PyInDefined(data) THEN RaiseOther("TypeError")
    ELSE IF PyIn("data", data) /\ PyIn("success", data) /\ PyIn("status", data)
         THEN (IF data.t = "dict" THEN Return(data.m["data"]) ELSE RaiseOther("TypeError"))
         ELSE Return(data)

\* client.py:66-105: DocmostClient._handle_response.
handle_response(response) ==
    LET data == DecodeBody(response)
        st == response.status
    IN  CASE st = 401 ->
               Raise("AuthenticationError",
                     JStr(<<"Authentication failed. Please run 'docmost login'.">>), 401, data)
          [] st = 404 -> ErrorFromBody("NotFoundError", data, JStr(<<"Resource not found">>), 404)
          [] st = 400 -> ErrorFromBody("ValidationError", data, JStr(<<"Validation error">>), 400)
          [] st >= 400 /\ st # 401 /\ st # 404 /\ st # 400 ->
               ErrorFromBody("DocmostError", data, ApiErrorDefault(st), st)
          [] OTHER -> Unwrap(data)

-----------------------------------------------------------------------------
(* Strings as sequences of symbols.                                        *)

\* str.rstrip("/") : every trailing "/" is removed.
RECURSIVE rstrip_slash(_)
rstrip_slash_one(s) == IF s # <<>> /\ s[Len(s)] = "/" THEN SubSeq(s, 1, Len(s) - 1) ELSE s
rstrip_slash(s) ==
    IF s # <<>> /\ s[Len(s)] = "/" THEN rstrip_slash(SubSeq(s, 1, Len(s) - 1)) ELSE s

\* str.endswith(suffix).
EndsWith(s, suffix) ==
    Len(s) >= Len(suffix) /\ SubSeq(s, Len(s) - Len(suffix) + 1, Len(s)) = suffix

\* str.strip(): leading and trailing whitespace removed.
Whitespace == {" ", "\n"}
RECURSIVE lstrip(_)
lstrip(s) == IF s # <<>> /\ s[1] \in Whitespace THEN lstrip(Tail(s)) ELSE s
RECURSIVE rstrip(_)
rstrip(s) ==
    IF s # <<>> /\ s[Len(s)] \in Whitespace THEN rstrip(SubSeq(s, 1, Len(s) - 1)) ELSE s
strip(s) == rstrip(lstrip(s))

-----------------------------------------------------------------------------
(* config.py: the configuration source.                                    *)

\* dict.update(other).
Update(d, e) ==
    [k \in (DOMAIN d) \cup (DOMAIN e) |-> IF k \in DOMAIN e THEN e[k] ELSE d[k]]

NoConfigFile == [exists |-> FALSE, m |-> EmptyDict]
ConfigFileOf(m) == [exists |-> TRUE, m |-> m]

\* config.py:25-29: the defaults load_config starts from.
DefaultConfig ==
    [k \in {"url", "default_format", "default_space"} |->
        IF k = "default_format" THEN Some(<<"table">>) ELSE None]

\* config.py:20-47: load_config.  The file's keys replace the defaults, a
\* non-empty environment variable replaces both.
EnvOverride(config, env, name, key) ==
    IF Truthy(env[name]) THEN Put(config, key, env[name]) ELSE config

load_config(env, cfile) ==
    LET fromFile == IF cfile.exists THEN Update(DefaultConfig, cfile.m) ELSE DefaultConfig
        c1 == EnvOverride(fromFile, env, "DOCMOST_URL", "url")
        c2 == EnvOverride(c1, env, "DOCMOST_FORMAT", "default_format")
    IN  EnvOverride(c2, env, "DOCMOST_SPACE", "default_space")

\* config.py:57-61: get_url with no argument.
get_url(env, cfile) ==
    LET config == load_config(env, cfile)
    IN  IF "url" \in DOMAIN config THEN config["url"] ELSE None

\* config.py:50-54: save_config writes the whole mapping.
save_config(config) == ConfigFileOf(config)

-----------------------------------------------------------------------------
(* auth.py: the credential store.                                          *)

NoTokenFile == [exists |-> FALSE, text |-> <<>>, mode |-> ""]

\* auth.py:10-24: get_token.
get_token_file_first(env, tfile) ==
    IF tfile.exists THEN Some(strip(tfile.text))
    ELSE IF Truthy(env["DOCMOST_TOKEN"]) THEN env["DOCMOST_TOKEN"]
    ELSE None
get_token(env, tfile) ==
    IF Truthy(env["DOCMOST_TOKEN"]) THEN env["DOCMOST_TOKEN"]
    ELSE IF tfile.exists THEN Some(strip(tfile.text))
    ELSE None

\* auth.py:27-35: save_token: write_text, then chmod 0o600.
save_token(token) == [exists |-> TRUE, text |-> token, mode |-> "0600"]

\* auth.py:32: token_file.write_text(token): a missing file is created with
\* the permissions the process's umask leaves, an existing one keeps its own.
write_text(tfile, token, created) ==
    [exists |-> TRUE, text |-> token, mode |-> IF tfile.exists THEN tfile.mode ELSE created]

\* auth.py:35: token_file.chmod(0o600).
chmod600(tfile) == [tfile EXCEPT !.mode = "0600"]

\* auth.py:38-42: delete_token.
delete_token_keeps(tfile) == tfile
delete_token(tfile) == IF tfile.exists THEN NoTokenFile ELSE tfile

\* auth.py:45-47: is_authenticated.
is_authenticated(env, tfile) == ~get_token(env, tfile).none

-----------------------------------------------------------------------------
(* client.py: DocmostClient.                                               *)

NoClient == [made |-> FALSE, url |-> None, token |-> None]

\* client.py:49-50: the URL and the token the constructor settles on.
ResolveUrl(urlArg, env, cfile) == PyOr(urlArg, get_url(env, cfile))
ResolveToken(tokenArg, env, tfile) == PyOr(tokenArg, get_token(env, tfile))

\* client.py:53: the constructor's check.
UrlMissingNever(url) == FALSE
UrlMissing(url) == ~Truthy(url)

\* client.py:41-54: DocmostClient.__init__.
NewClient(urlArg, tokenArg, env, cfile, tfile) ==
    [made |-> ~UrlMissing(ResolveUrl(urlArg, env, cfile)),
     url |-> ResolveUrl(urlArg, env, cfile),
     token |-> ResolveToken(tokenArg, env, tfile)]

NoUrlError ==
    Raise("DocmostError",
          JStr(<<"No API URL configured. Set DOCMOST_URL or run 'docmost login'.">>), 0, JNull)

\* client.py:62-63 and 174-175: the Authorization header, when there is a token.
WithAuthAlways(headers, token) == Put(headers, "Authorization", <<"Bearer ">> \o token.v)
WithAuth(headers, token) ==
    IF Truthy(token) THEN Put(headers, "Authorization", <<"Bearer ">> \o token.v) ELSE headers

\* client.py:56-64: _get_headers.
get_headers(c) ==
    WithAuth([h \in {"Content-Type", "Accept"} |->
                 IF h = "Content-Type" THEN <<"application/x-www-form-urlencoded">>
                 ELSE <<"application/json">>],
             c.token)

\* client.py:117, 142, 170: the URL requested.
JoinUrl(base, endpoint) == rstrip_slash(base) \o endpoint

\* A request as it is handed to httpx, with the endpoint the caller named:
\* json= gives a JSON body, data= a URL-encoded form, files= a multipart body.
Request(op, endpoint, url, headers, encoding, data) ==
    [op |-> op, method |-> "POST", endpoint |-> endpoint, url |-> url, headers |-> headers,
     encoding |-> encoding, data |-> data]

\* client.py:117-127: the request of post.
PostRequest(c, endpoint, data) ==
    Request("post", endpoint, JoinUrl(c.url.v, endpoint),
            Put(get_headers(c), "Content-Type", <<"application/json">>), "json", data)

\* client.py:142-152: the request of post_json.
PostJsonRequest(c, endpoint, data) ==
    Request("post_json", endpoint, JoinUrl(c.url.v, endpoint),
            Put(get_headers(c), "Content-Type", <<"application/json">>), "json", data)

\* client.py:170-187: the request of upload_file.
UploadRequest(c, endpoint, data) ==
    Request("upload_file", endpoint, JoinUrl(c.url.v, endpoint), WithAuth(EmptyDict, c.token),
            "multipart", data)

\* client.py:122-128: what a call ends with once the transport has answered
\* or failed (httpx raises a RequestError that nothing in the client catches).
CallOutcome(answer) ==
    IF answer.arrived THEN handle_response(answer) ELSE RaiseOther("httpx.RequestError")

-----------------------------------------------------------------------------
(* commands/auth.py: login.                                                *)

\* Python truthiness of a JSON value.
JTruthy(v) ==
    CASE v.t = "dict" -> DOMAIN v.m # {}
      [] v.t = "list" -> v.l # <<>>
      [] v.t = "str" -> v.s # <<>>
      [] v.t = "bool" -> v.s # <<>>
      [] v.t = "int" -> TRUE
      [] OTHER -> FALSE

\* Python's `a or b` on JSON values.
JOr(a, b) == IF JTruthy(a) THEN a ELSE b

\* The result of evaluating an expression: a value, or an exception.
Val(v) == [ok |-> TRUE, exc |-> "", v |-> v]
Exc(e) == [ok |-> FALSE, exc |-> e, v |-> JNull]

\* auth.py:23-25: the API URL login posts to and saves.
LoginApiUrlAppends(url) == rstrip_slash(url) \o <<"/", "api">>
LoginApiUrl(url) ==
    IF EndsWith(rstrip_slash(url), <<"/", "api">>)
    THEN rstrip_slash(url)
    ELSE rstrip_slash(url) \o <<"/", "api">>

\* auth.py:29-33: the login request: a form body, and no header but
\* Content-Type.
LoginRequest(url, env, tfile) ==
    Request("login", <<"/", "auth", "/", "login">>, LoginApiUrl(url) \o <<"/", "auth", "/", "login">>,
            [h \in {"Content-Type"} |-> <<"application/x-www-form-urlencoded">>], "form",
            [k \in {"email", "password"} |-> Word(k)])

\* auth.py:53-55: the nested data.tokens lookup.
NestedToken(data) ==
    IF ~PyInDefined(data) THEN Exc("TypeError")
    ELSE IF ~PyIn("data", data) THEN Val(JNull)
    ELSE IF data.t # "dict" THEN Exc("TypeError")
    ELSE IF data.m["data"].t # "dict" THEN Val(JNull)
    ELSE LET tokens == PyGet(data.m["data"], "tokens", JMap(EmptyDict))
         IN  IF ~HasGet(tokens) THEN Exc("AttributeError")
             ELSE Val(JOr(PyGet(tokens, "accessToken", JNull),
                          PyGet(tokens, "access_token", JNull)))

\* auth.py:57-58: the top-level keys.
TopLevelToken(data) ==
    IF ~HasGet(data) THEN Exc("AttributeError")
    ELSE Val(JOr(PyGet(data, "token", JNull),
                 JOr(PyGet(data, "accessToken", JNull), PyGet(data, "access_token", JNull))))

\* auth.py:44-58: the token of a 200 login response: the authToken cookie,
\* else the body's nested tokens, else its top-level keys.
LoginToken(response) ==
    IF Truthy(response.cookie) THEN Val(JStr(response.cookie.v))
    ELSE IF ~response.isJson THEN Exc("JSONDecodeError")
    ELSE LET nested == NestedToken(response.json)
         IN  IF ~nested.ok THEN nested
             ELSE IF JTruthy(nested.v) THEN nested
             ELSE TopLevelToken(response.json)

\* auth.py:35-76: what login does with the transport's answer: the message
\* it prints, its exit status, the exception that escapes it (if any), and
\* the token and URL it saves (if it does).
\* output.py:94-101: a line printed by success (stdout) or error (stderr),
\* or echoed by click.echo.
Line(stream, text, arg) == [stream |-> stream, text |-> text, arg |-> arg]

LoginResult(msg, code, exc, saves, token) ==
    [msg |-> msg, code |-> code, exc |-> exc, saves |-> saves, token |-> token]

LoginEnd(url, answer) ==
    IF ~answer.arrived THEN LoginResult("Connection error", 1, "SystemExit", FALSE, <<>>)
    ELSE IF answer.status = 401
         THEN LoginResult("Invalid email or password", 1, "SystemExit", FALSE, <<>>)
    ELSE IF answer.status # 200
         THEN LoginResult("Login failed", 1, "SystemExit", FALSE, <<>>)
    ELSE LET tok == LoginToken(answer)
         IN  IF ~tok.ok THEN LoginResult("", 1, tok.exc, FALSE, <<>>)
             ELSE IF ~JTruthy(tok.v)
                  THEN LoginResult("No token received from server", 1, "SystemExit", FALSE, <<>>)
             ELSE IF tok.v.t # "str" THEN LoginResult("", 1, "TypeError", FALSE, <<>>)
             ELSE LoginResult("Logged in successfully", 0, "", TRUE, tok.v.s)

-----------------------------------------------------------------------------
(* Actions.                                                                *)

\* DocmostClient(url=urlArg, token=tokenArg)   (client.py:41-54)
Construct(urlArg, tokenArg) ==
    /\ ~client.made
    /\ ~ctorArgs.called
    /\ ctorArgs' = [called |-> TRUE, url |-> urlArg, token |-> tokenArg]
    /\ LET c == NewClient(urlArg, tokenArg, environ, configFile, tokenFile)
       IN  IF c.made
           THEN /\ client' = c
                /\ outcome' = Return(JNull)
           ELSE /\ client' = NoClient
                /\ outcome' = NoUrlError
    /\ UNCHANGED <<storeVars, wire, lastResponse, cmdVars, pageVars>>

\* client.post(endpoint, data)   (client.py:107-128)
Post(endpoint, answer) ==
    /\ client.made
    /\ Len(wire) < MaxRequests
    /\ wire' = Append(wire, PostRequest(client, endpoint, EmptyDict))
    /\ lastResponse' = answer
    /\ outcome' = CallOutcome(answer)
    /\ UNCHANGED <<storeVars, client, ctorArgs, cmdVars, pageVars>>

\* client.post_json(endpoint, data)   (client.py:130-153)
PostJson(endpoint, answer) ==
    /\ client.made
    /\ Len(wire) < MaxRequests
    /\ wire' = Append(wire, PostJsonRequest(client, endpoint, EmptyDict))
    /\ lastResponse' = answer
    /\ outcome' = CallOutcome(answer)
    /\ UNCHANGED <<storeVars, client, ctorArgs, cmdVars, pageVars>>

\* client.upload_file(endpoint, file_path, form_data)   (client.py:155-188)
\* open(file_path) raises before any request when the file is missing.
UploadFile(endpoint, fileExists, answer) ==
    /\ client.made
    /\ Len(wire) < MaxRequests
    /\ IF fileExists
       THEN /\ wire' = Append(wire, UploadRequest(client, endpoint, EmptyDict))
            /\ lastResponse' = answer
            /\ outcome' = CallOutcome(answer)
       ELSE /\ outcome' = RaiseOther("FileNotFoundError")
            /\ lastResponse' = NoResponse
            /\ UNCHANGED wire
    /\ UNCHANGED <<storeVars, client, ctorArgs, cmdVars, pageVars>>

\* docmost login --url url   (commands/auth.py:20-76)
Login(url, answer) ==
    /\ Len(wire) < MaxRequests
    /\ wire' = Append(wire, LoginRequest(url, environ, tokenFile))
    /\ lastResponse' = answer
    /\ LET end == LoginEnd(url, answer)
       IN  /\ stdout' = IF end.msg = "" THEN stdout
                        ELSE Append(stdout, Line(IF end.code = 0 THEN "out" ELSE "err",
                                                 end.msg, JNull))
           /\ exitCode' = end.code
           /\ outcome' = IF end.exc = "" THEN Return(JNull) ELSE RaiseOther(end.exc)
           /\ tokenFile' = IF end.saves THEN save_token(end.token) ELSE tokenFile
           /\ configFile' =
                 IF end.saves
                 THEN save_config(Put(load_config(environ, configFile), "url",
                                      Some(LoginApiUrl(url))))
                 ELSE configFile
    /\ UNCHANGED <<environ, client, ctorArgs, pageVars>>

-----------------------------------------------------------------------------
(* The bodies and statuses a server may answer with.                       *)

EnvelopeKeys == {"data", "success", "status", "message"}

\* A page record, as the server's /pages endpoints return it.
PageBody == JMap([k \in {"id", "title"} |-> IF k = "id" THEN Word("p1") ELSE Word("Home")])

\* The value a body gives each envelope key.
EnvelopeValue(k) ==
    CASE k = "data" -> PageBody
      [] k = "success" -> JTrue
      [] k = "status" -> JInt
      [] OTHER -> Word("Page not found")

\* Every mapping over a subset of the envelope keys, a bare page, and an
\* envelope around a list.
DictBodies ==
    {JMap([k \in keys |-> EnvelopeValue(k)]) : keys \in SUBSET EnvelopeKeys}
      \cup {PageBody,
            JMap([k \in {"data", "success", "status"} |->
                     IF k = "data" THEN JList(<<PageBody>>) ELSE EnvelopeValue(k)])}

ListBodies ==
    {JList(<<>>), JList(<<PageBody>>), JList(<<Word("data")>>),
     JList(<<Word("data"), Word("success"), Word("status")>>)}

ScalarBodies ==
    {JStr(<<"hello">>), JStr(<<"data", " ", "success", " ", "status">>), JInt, JTrue, JNull}

JsonBodies == DictBodies \cup ListBodies \cup ScalarBodies

TextBodies == {<<>>, <<"plain text">>}

Statuses == {200, 299, 302, 400, 401, 403, 404, 599}

\* Every answer of the transport: a response of any status with any body, or
\* a failure to get one.
Answers ==
    {JsonResponse(st, b) : st \in Statuses, b \in JsonBodies}
      \cup {TextResponse(st, t) : st \in Statuses, t \in TextBodies}
      \cup {NoResponse}

\* The endpoint paths used; each begins with "/".
Endpoints == {<<"/", "spaces">>, <<"/", "pages", "/", "info">>}

-----------------------------------------------------------------------------
(* Initial states.                                                         *)

EnvNames == {"DOCMOST_URL", "DOCMOST_TOKEN", "DOCMOST_FORMAT", "DOCMOST_SPACE"}
EmptyEnviron == [n \in EnvNames |-> None]
NoCtorArgs == [called |-> FALSE, url |-> None, token |-> None]

\* No pages command is running and no content file exists.  answer is what
\* the user said at the confirmation prompt ("" when no prompt was shown),
\* token the argument of the latest save_token not followed by a
\* delete_token, position the --position option of pages move.
NoCommand ==
    [name |-> "", pc |-> "idle", page_id |-> None, space_id |-> None, title |-> None,
     content |-> None, content_file |-> None, parent_id |-> None, icon |-> None,
     cover_photo |-> None, tmp_path |-> "", page_info |-> JNull, result |-> JNull,
     update_data |-> EmptyDict, pending |-> NoOutcome, answer |-> "", force |-> FALSE,
     token |-> None, position |-> None]

\* A file is "absent" (never created), "present" or "deleted" (unlinked).
NoFiles == [staged |-> "absent", stagedText |-> <<>>, caller |-> "absent"]

\* Nothing has run yet.
Idle ==
    /\ client = NoClient
    /\ ctorArgs = NoCtorArgs
    /\ wire = <<>>
    /\ lastResponse = NoResponse
    /\ outcome = NoOutcome
    /\ stdout = <<>>
    /\ exitCode = -1
    /\ cmd = NoCommand
    /\ fs = NoFiles

-----------------------------------------------------------------------------
(* SpecResponse: one client, every answer to every call.                   *)

InitResponse ==
    /\ environ = EmptyEnviron
    /\ configFile = NoConfigFile
    /\ tokenFile = NoTokenFile
    /\ Idle

NextResponse ==
    \/ Construct(Some(<<"h", "/", "api">>), Some(<<"t">>))
    \/ \E e \in {<<"/", "spaces">>}, a \in Answers : Post(e, a)
    \/ \E e \in {<<"/", "spaces">>}, a \in Answers : PostJson(e, a)
    \/ \E a \in Answers : UploadFile(<<"/", "pages", "/", "import">>, TRUE, a)
    \/ UploadFile(<<"/", "pages", "/", "import">>, FALSE, NoResponse)

SpecResponse == InitResponse /\ [][NextResponse]_vars

-----------------------------------------------------------------------------
(* SpecWire: clients over every base URL and token, and what they and      *)
(* login put on the wire.                                                  *)

\* Base URLs: every non-empty string of at most MaxUrlLen symbols.
Bases == UNION {[1..n -> {"h", "/"}] : n \in 1..MaxUrlLen}

TokenArgs == {None, Some(<<>>), Some(<<"t">>)}

PageAnswer == JsonResponse(200, PageBody)

\* A login response: a status, an authToken cookie or none, a body.
LoginResponse(status, cookie, json) ==
    [arrived |-> TRUE, status |-> status, isJson |-> TRUE, json |-> json, text |-> <<>>,
     cookie |-> cookie]

WireLoginAnswers ==
    {LoginResponse(200, Some(<<"c">>), JMap(EmptyDict)),
     LoginResponse(401, None, JMap(EmptyDict)),
     NoResponse}

InitWire ==
    /\ environ = EmptyEnviron
    /\ configFile = NoConfigFile
    /\ tokenFile \in {NoTokenFile, save_token(<<"s">>)}
    /\ Idle

NextWire ==
    \/ \E b \in Bases, t \in TokenArgs : Construct(Some(b), t)
    \/ \E e \in Endpoints : Post(e, PageAnswer)
    \/ PostJson(<<"/", "search">>, PageAnswer)
    \/ UploadFile(<<"/", "pages", "/", "import">>, TRUE, PageAnswer)
    \/ \E a \in WireLoginAnswers : Login(<<"h", "/">>, a)

SpecWire == InitWire /\ [][NextWire]_vars

-----------------------------------------------------------------------------
(* SpecConstruct: the constructor under every configuration.               *)

UrlArgs == {None, Some(<<>>), Some(<<"x", "/", "api">>)}

ConstructEnvirons ==
    {[n \in EnvNames |-> IF n = "DOCMOST_URL" THEN u ELSE IF n = "DOCMOST_TOKEN" THEN t ELSE None] :
        u \in {None, Some(<<>>), Some(<<"e", "/", "api">>)}, t \in {None, Some(<<"et">>)}}

ConstructConfigFiles ==
    {NoConfigFile,
     ConfigFileOf([k \in {"default_format"} |-> Some(<<"json">>)]),
     ConfigFileOf([k \in {"url"} |-> None]),
     ConfigFileOf([k \in {"url"} |-> Some(<<>>)]),
     ConfigFileOf([k \in {"url"} |-> Some(<<"f", "/", "api">>)])}

InitConstruct ==
    /\ environ \in ConstructEnvirons
    /\ configFile \in ConstructConfigFiles
    /\ tokenFile \in {NoTokenFile, save_token(<<" ", "ft", "\n">>)}
    /\ Idle

NextConstruct ==
    \/ \E u \in UrlArgs, t \in TokenArgs : Construct(u, t)
    \/ \E a \in {PageAnswer, JsonResponse(404, JMap(EmptyDict))} : Post(<<"/", "spaces">>, a)

SpecConstruct == InitConstruct /\ [][NextConstruct]_vars

-----------------------------------------------------------------------------
(* commands/pages.py: pages create and pages update.                       *)

\* cli.py:13-23: ctx.obj.url: the --url option, else the configured URL.
CtxUrl(cliUrl, env, cfile) == PyOr(cliUrl, get_url(env, cfile))

\* pages.py:36, 119: get_client(url=ctx.obj.url).
CommandClient(env, cfile, tfile) ==
    NewClient(CtxUrl(None, env, cfile), None, env, cfile, tfile)

\* pages.py:49-52, 152-155: what is written to the staged file: the content,
\* under an H1 of the title unless it already starts with "#".
StartsWithHash(content) == strip(content) # <<>> /\ strip(content)[1] = "#"
StagedTextPlain(title, content) == content
StagedText(title, content) ==
    IF StartsWithHash(content) THEN content
    ELSE <<"#", " ">> \o title \o <<"\n", "\n">> \o content

\* pages.py:44-55, 147-158: the file to upload: a new temporary file when
\* content is given, else the caller's file.
Stage(files, content, text) ==
    IF Truthy(content)
    THEN [files EXCEPT !.staged = "present", !.stagedText = text]
    ELSE files
TmpPath(content) == IF Truthy(content) THEN "tmp" ELSE "caller"

\* os.path.exists(tmp_path).
PathExists(files, path) ==
    IF path = "tmp" THEN files.staged = "present" ELSE files.caller = "present"

\* os.unlink(tmp_path).
Unlink(files, path) ==
    IF path = "tmp" THEN [files EXCEPT !.staged = "deleted"]
    ELSE [files EXCEPT !.caller = "deleted"]

\* pages.py:66, 179: the finally clause's condition.
CleanupDeletesAnyPath(files, content, path) == PathExists(files, path)
CleanupDeletes(files, content, path) == Truthy(content) /\ PathExists(files, path)

\* pages.py:65-67, 178-180: the finally clause.
Cleanup(files, content, path) ==
    IF CleanupDeletes(files, content, path) THEN Unlink(files, path) ELSE files

\* An Optional[str] option as a JSON value of a request.
J(o) == IF o.none THEN JNull ELSE JStr(o.v)

\* Python's `a or b` with an option on the left and a JSON value on the right.
OptOrJ(o, j) == IF Truthy(o) THEN JStr(o.v) ELSE j

\* pages.py:132-136: whether the confirmation prompt lets the update go on.
ConfirmedAlways(answer) == TRUE
Confirmed(answer) == answer

\* pages.py:164-170: the metadata re-applied after the import.
UpdateData(result, title, icon, cover_photo, page_info) ==
    LET d0 == [k \in {"pageId"} |-> result.m["id"]]
        d1 == IF Truthy(title) /\ PyGet(result, "title", JNull) # JStr(title.v)
              THEN Put(d0, "title", JStr(title.v)) ELSE d0
        iconVal == OptOrJ(icon, PyGet(page_info, "icon", JNull))
        d2 == IF JTruthy(iconVal) THEN Put(d1, "icon", iconVal) ELSE d1
        coverVal == OptOrJ(cover_photo, PyGet(page_info, "coverPhoto", JNull))
    IN  IF JTruthy(coverVal) THEN Put(d2, "coverPhoto", coverVal) ELSE d2

\* pages.py:177: page_info.get('space', {}).get('slug', 'unknown') raises
\* when the space of the page is not a mapping.
SlugLookupRaises(page_info) ==
    "space" \in DOMAIN page_info.m /\ ~HasGet(page_info.m["space"])

\* output.py:66-91: output() in the table format raises on a value that is
\* neither a mapping nor a list of mappings (format_plain calls .items(),
\* format_table calls .keys() and .get()).
OutputRaises(v) ==
    CASE v.t = "dict" -> FALSE
      [] v.t = "list" -> \E i \in 1..Len(v.l) : v.l[i].t # "dict"
      [] OTHER -> TRUE

\* pages.py:76-78, 193-195: how a command ends: a DocmostError is printed
\* and exits 1, any other exception escapes, no exception exits 0.
EndLines(lines, pending) ==
    IF pending.kind = "raise" /\ pending.exc \in DocmostErrorFamily
    THEN Append(lines, Line("err", "error", pending.message))
    ELSE lines
EndCodeAlwaysZero(pending) == 0
EndCode(pending) == IF pending.kind = "raise" THEN 1 ELSE 0
EndOutcome(pending) ==
    IF pending.kind # "raise" THEN Return(JNull)
    ELSE IF pending.exc \in DocmostErrorFamily THEN RaiseOther("SystemExit")
    ELSE pending

\* The command ends here, outside any try/finally.
EndCommand(pending, lines) ==
    /\ stdout' = EndLines(lines, pending)
    /\ exitCode' = EndCode(pending)
    /\ outcome' = EndOutcome(pending)

\* The request goes out and the answer comes back.
Exchange(request, answer) ==
    /\ wire' = Append(wire, request)
    /\ lastResponse' = answer

\* pages create: get_client and the staging   (pages.py:35-55, 68-72)
PagesCreateBegin(space_id, title, content, content_file, parent_id) ==
    /\ cmd.pc = "idle"
    /\ LET c == CommandClient(environ, configFile, tokenFile)
           args == [cmd EXCEPT !.name = "create", !.space_id = Some(space_id),
                               !.title = Some(title), !.content = content,
                               !.content_file = content_file, !.parent_id = parent_id]
       IN  /\ ctorArgs' = [called |-> TRUE, url |-> CtxUrl(None, environ, configFile),
                           token |-> None]
           /\ IF ~c.made
              THEN /\ cmd' = [args EXCEPT !.pc = "done"]
                   /\ EndCommand(NoUrlError, stdout)
                   /\ UNCHANGED <<client, fs>>
              ELSE /\ client' = c
                   /\ IF Truthy(content) \/ Truthy(content_file)
                      THEN /\ fs' = Stage(fs, content, StagedText(title, content.v))
                           /\ cmd' = [args EXCEPT !.pc = "create_upload",
                                                  !.tmp_path = TmpPath(content)]
                      ELSE /\ cmd' = [args EXCEPT !.pc = "create_empty"]
                           /\ UNCHANGED fs
                   /\ UNCHANGED <<outcome, stdout, exitCode>>
    /\ UNCHANGED <<storeVars, wire, lastResponse>>

\* pages create: the upload and what follows it in the try block
\* (pages.py:57-64)
PagesCreateUpload(answer) ==
    /\ cmd.pc = "create_upload"
    /\ IF ~PathExists(fs, cmd.tmp_path)
       THEN /\ cmd' = [cmd EXCEPT !.pc = "finally",
                                  !.pending = RaiseOther("FileNotFoundError")]
            /\ UNCHANGED <<wire, lastResponse, stdout>>
       ELSE /\ Exchange(UploadRequest(client, <<"/", "pages", "/", "import">>,
                                      [k \in {"spaceId"} |-> J(cmd.space_id)]),
                        answer)
            /\ LET o == CallOutcome(answer)
                   result == o.value
               IN  IF o.kind = "raise"
                   THEN /\ cmd' = [cmd EXCEPT !.pc = "finally", !.pending = o]
                        /\ UNCHANGED stdout
                   ELSE IF ~HasGet(result)
                   THEN /\ cmd' = [cmd EXCEPT !.pc = "finally",
                                              !.pending = RaiseOther("AttributeError")]
                        /\ UNCHANGED stdout
                   ELSE IF PyGet(result, "title", JNull) = J(cmd.title)
                   THEN /\ cmd' = [cmd EXCEPT !.pc = "finally", !.result = result]
                        /\ stdout' = stdout \o <<Line("out", "output", result),
                                                 Line("out", "created with content", JNull)>>
                   ELSE IF "id" \notin DOMAIN result.m
                   THEN /\ cmd' = [cmd EXCEPT !.pc = "finally",
                                              !.pending = RaiseOther("KeyError")]
                        /\ UNCHANGED stdout
                   ELSE /\ cmd' = [cmd EXCEPT !.pc = "create_title", !.result = result]
                        /\ UNCHANGED stdout
    /\ UNCHANGED <<storeVars, client, ctorArgs, outcome, exitCode, fs>>

\* pages create: the follow-up update of the title   (pages.py:61-64)
PagesCreateTitle(answer) ==
    /\ cmd.pc = "create_title"
    /\ Exchange(PostRequest(client, <<"/", "pages", "/", "update">>,
                            [k \in {"pageId", "title"} |->
                                IF k = "pageId" THEN cmd.result.m["id"] ELSE J(cmd.title)]),
                answer)
    /\ LET o == CallOutcome(answer)
           result == JMap(Put(cmd.result.m, "title", J(cmd.title)))
       IN  IF o.kind = "raise"
           THEN /\ cmd' = [cmd EXCEPT !.pc = "finally", !.pending = o]
                /\ UNCHANGED stdout
           ELSE /\ cmd' = [cmd EXCEPT !.pc = "finally", !.result = result]
                /\ stdout' = stdout \o <<Line("out", "output", result),
                                         Line("out", "created with content", JNull)>>
    /\ UNCHANGED <<storeVars, client, ctorArgs, outcome, exitCode, fs>>

\* pages create without content   (pages.py:69-75)
PagesCreateEmpty(answer) ==
    /\ cmd.pc = "create_empty"
    /\ Exchange(PostRequest(client, <<"/", "pages", "/", "create">>,
                            LET d == [k \in {"spaceId", "title"} |->
                                         IF k = "spaceId" THEN J(cmd.space_id) ELSE J(cmd.title)]
                            IN  IF Truthy(cmd.parent_id)
                                THEN Put(d, "parentPageId", J(cmd.parent_id)) ELSE d),
                answer)
    /\ LET o == CallOutcome(answer)
       IN  IF o.kind = "raise"
           THEN /\ cmd' = [cmd EXCEPT !.pc = "done", !.pending = o]
                /\ EndCommand(o, stdout)
           ELSE IF ~OutputRaises(o.value)
           THEN /\ cmd' = [cmd EXCEPT !.pc = "done", !.result = o.value]
                /\ EndCommand(NoOutcome, stdout \o <<Line("out", "output", o.value),
                                                     Line("out", "created", JNull)>>)
           ELSE /\ cmd' = [cmd EXCEPT !.pc = "done", !.pending = RaiseOther("AttributeError")]
                /\ EndCommand(RaiseOther("AttributeError"), stdout)
    /\ UNCHANGED <<storeVars, client, ctorArgs, fs>>

\* The finally clause of create and update, and the end of the command
\* (pages.py:65-67, 76-78, 178-180, 193-195)
PagesFinally ==
    /\ cmd.pc = "finally"
    /\ fs' = Cleanup(fs, cmd.content, cmd.tmp_path)
    /\ cmd' = [cmd EXCEPT !.pc = "done"]
    /\ EndCommand(cmd.pending, stdout)
    /\ UNCHANGED <<storeVars, client, ctorArgs, wire, lastResponse>>

\* pages update: get_client   (pages.py:118-122, 181-189)
PagesUpdateBegin(page_id, title, content, content_file, icon, cover_photo) ==
    /\ cmd.pc = "idle"
    /\ LET c == CommandClient(environ, configFile, tokenFile)
           args == [cmd EXCEPT !.name = "update", !.page_id = Some(page_id), !.title = title,
                               !.content = content, !.content_file = content_file,
                               !.icon = icon, !.cover_photo = cover_photo]
       IN  /\ ctorArgs' = [called |-> TRUE, url |-> CtxUrl(None, environ, configFile),
                           token |-> None]
           /\ IF ~c.made
              THEN /\ cmd' = [args EXCEPT !.pc = "done"]
                   /\ EndCommand(NoUrlError, stdout)
                   /\ UNCHANGED client
              ELSE /\ client' = c
                   /\ cmd' = [args EXCEPT !.pc = IF Truthy(content) \/ Truthy(content_file)
                                                 THEN "update_info" ELSE "update_meta"]
                   /\ UNCHANGED <<outcome, stdout, exitCode>>
    /\ UNCHANGED <<storeVars, wire, lastResponse, fs>>

\* pages update with content: reading the page's metadata   (pages.py:124-129)
PagesUpdateInfo(answer) ==
    /\ cmd.pc = "update_info"
    /\ Exchange(PostRequest(client, <<"/", "pages", "/", "info">>,
                            [k \in {"pageId"} |-> J(cmd.page_id)]),
                answer)
    /\ LET o == CallOutcome(answer)
           failure == IF o.kind = "raise" THEN o
                      ELSE IF ~HasGet(o.value) THEN RaiseOther("AttributeError")
                      ELSE IF "spaceId" \notin DOMAIN o.value.m THEN RaiseOther("KeyError")
                      ELSE NoOutcome
       IN  IF failure.kind = "raise"
           THEN /\ cmd' = [cmd EXCEPT !.pc = "done", !.pending = failure]
                /\ EndCommand(failure, stdout)
           ELSE /\ cmd' = [cmd EXCEPT !.pc = "update_confirm", !.page_info = o.value]
                /\ UNCHANGED <<outcome, stdout, exitCode>>
    /\ UNCHANGED <<storeVars, client, ctorArgs, fs>>

\* pages update with content: the confirmation prompt   (pages.py:131-138)
PagesUpdateConfirm(answer) ==
    /\ cmd.pc = "update_confirm"
    /\ IF Confirmed(answer)
       THEN /\ cmd' = [cmd EXCEPT !.pc = "update_delete",
                                  !.answer = IF answer THEN "yes" ELSE "no"]
            /\ UNCHANGED <<outcome, stdout, exitCode>>
       ELSE /\ cmd' = [cmd EXCEPT !.pc = "done", !.answer = "no"]
            /\ EndCommand(NoOutcome, Append(stdout, Line("out", "Cancelled", JNull)))
    /\ UNCHANGED <<storeVars, client, ctorArgs, wire, lastResponse, fs>>

\* pages.py:141: the delete call raised, so nothing after it runs.
DeleteFailedNever(o) == FALSE
DeleteFailed(o) == o.kind = "raise"

\* pages update with content: deleting the old page, then staging the new
\* content   (pages.py:140-158)
PagesUpdateDelete(answer) ==
    /\ cmd.pc = "update_delete"
    /\ Exchange(PostRequest(client, <<"/", "pages", "/", "delete">>,
                            [k \in {"pageId"} |-> J(cmd.page_id)]),
                answer)
    /\ LET o == CallOutcome(answer)
           current_title == PyGet(cmd.page_info, "title",
                                  IF Truthy(cmd.title) THEN J(cmd.title)
                                  ELSE JStr(<<"Untitled">>))
           final_title == OptOrJ(cmd.title, current_title)
       IN  IF DeleteFailed(o)
           THEN /\ cmd' = [cmd EXCEPT !.pc = "done", !.pending = o]
                /\ EndCommand(o, stdout)
                /\ UNCHANGED fs
           ELSE /\ fs' = Stage(fs, cmd.content, StagedText(final_title.s, cmd.content.v))
                /\ cmd' = [cmd EXCEPT !.pc = "update_upload",
                                      !.tmp_path = TmpPath(cmd.content)]
                /\ UNCHANGED <<outcome, stdout, exitCode>>
    /\ UNCHANGED <<storeVars, client, ctorArgs>>

\* pages.py:175-177: output(result), success(... result.get('title') ...),
\* click.echo(... page_info.get('space', {}).get('slug') ...): the exception
\* this raises, if any, and the lines printed before it.
PrintFailure(result, page_info) ==
    IF OutputRaises(result) \/ ~HasGet(result) THEN RaiseOther("AttributeError")
    ELSE IF SlugLookupRaises(page_info) THEN RaiseOther("AttributeError")
    ELSE NoOutcome

UpdatedLines(result, page_info) ==
    IF OutputRaises(result) THEN <<>>
    ELSE IF ~HasGet(result) THEN <<Line("out", "output", result)>>
    ELSE IF SlugLookupRaises(page_info)
    THEN <<Line("out", "output", result),
           Line("out", "updated with new content", PyGet(result, "title", JNull))>>
    ELSE <<Line("out", "output", result),
           Line("out", "updated with new content", PyGet(result, "title", JNull)),
           Line("out", "New URL", PyGet(result, "slugId", JNull))>>

\* pages update with content: the import and what follows it in the try
\* block   (pages.py:160-177)
PagesUpdateUpload(answer) ==
    /\ cmd.pc = "update_upload"
    /\ IF ~PathExists(fs, cmd.tmp_path)
       THEN /\ cmd' = [cmd EXCEPT !.pc = "finally",
                                  !.pending = RaiseOther("FileNotFoundError")]
            /\ UNCHANGED <<wire, lastResponse, stdout>>
       ELSE /\ Exchange(UploadRequest(client, <<"/", "pages", "/", "import">>,
                                      [k \in {"spaceId"} |-> cmd.page_info.m["spaceId"]]),
                        answer)
            /\ LET o == CallOutcome(answer)
                   result == o.value
                   data == UpdateData(result, cmd.title, cmd.icon, cmd.cover_photo,
                                      cmd.page_info)
               IN  IF o.kind = "raise"
                   THEN /\ cmd' = [cmd EXCEPT !.pc = "finally", !.pending = o]
                        /\ UNCHANGED stdout
                   ELSE IF result.t # "dict"
                   THEN /\ cmd' = [cmd EXCEPT !.pc = "finally",
                                              !.pending = RaiseOther("TypeError")]
                        /\ UNCHANGED stdout
                   ELSE IF "id" \notin DOMAIN result.m
                   THEN /\ cmd' = [cmd EXCEPT !.pc = "finally",
                                              !.pending = RaiseOther("KeyError")]
                        /\ UNCHANGED stdout
                   ELSE IF Cardinality(DOMAIN data) > 1
                   THEN /\ cmd' = [cmd EXCEPT !.pc = "update_reapply", !.result = result,
                                              !.update_data = data]
                        /\ UNCHANGED stdout
                   ELSE /\ cmd' = [cmd EXCEPT !.pc = "finally", !.result = result,
                                              !.update_data = data,
                                              !.pending = PrintFailure(result, cmd.page_info)]
                        /\ stdout' = stdout \o UpdatedLines(result, cmd.page_info)
    /\ UNCHANGED <<storeVars, client, ctorArgs, outcome, exitCode, fs>>

\* pages update with content: re-applying the metadata   (pages.py:172-177)
PagesUpdateReapply(answer) ==
    /\ cmd.pc = "update_reapply"
    /\ Exchange(PostRequest(client, <<"/", "pages", "/", "update">>, cmd.update_data), answer)
    /\ LET o == CallOutcome(answer)
       IN  IF o.kind = "raise"
           THEN /\ cmd' = [cmd EXCEPT !.pc = "finally", !.pending = o]
                /\ UNCHANGED stdout
           ELSE /\ cmd' = [cmd EXCEPT !.pc = "finally", !.result = o.value,
                                      !.pending = PrintFailure(o.value, cmd.page_info)]
                /\ stdout' = stdout \o UpdatedLines(o.value, cmd.page_info)
    /\ UNCHANGED <<storeVars, client, ctorArgs, outcome, exitCode, fs>>

\* pages update without content   (pages.py:181-192)
PagesUpdateMeta(answer) ==
    /\ cmd.pc = "update_meta"
    /\ Exchange(PostRequest(client, <<"/", "pages", "/", "update">>,
                            LET d0 == [k \in {"pageId"} |-> J(cmd.page_id)]
                                d1 == IF Truthy(cmd.title) THEN Put(d0, "title", J(cmd.title))
                                      ELSE d0
                                d2 == IF Truthy(cmd.icon) THEN Put(d1, "icon", J(cmd.icon))
                                      ELSE d1
                            IN  IF Truthy(cmd.cover_photo)
                                THEN Put(d2, "coverPhoto", J(cmd.cover_photo)) ELSE d2),
                answer)
    /\ LET o == CallOutcome(answer)
       IN  IF o.kind = "raise"
           THEN /\ cmd' = [cmd EXCEPT !.pc = "done", !.pending = o]
                /\ EndCommand(o, stdout)
           ELSE IF ~OutputRaises(o.value)
           THEN /\ cmd' = [cmd EXCEPT !.pc = "done", !.result = o.value]
                /\ EndCommand(NoOutcome, stdout \o <<Line("out", "output", o.value),
                                                     Line("out", "updated", JNull)>>)
           ELSE /\ cmd' = [cmd EXCEPT !.pc = "done", !.pending = RaiseOther("AttributeError")]
                /\ EndCommand(RaiseOther("AttributeError"), stdout)
    /\ UNCHANGED <<storeVars, client, ctorArgs, fs>>

-----------------------------------------------------------------------------
(* SpecPages: one run of pages create or pages update.                     *)

\* What --content and --content-file may be.
Contents == {None, Some(<<"body">>), Some(<<" ", "#", "H">>)}
ContentFiles == {None, Some(<<"notes.md">>)}
Titles == {None, Some(<<"T">>)}
Icons == {None, Some(<<"i">>)}

PageWith(keys) ==
    JMap([k \in keys |->
             IF k = "title" THEN Word("T")
             ELSE IF k = "space" THEN JMap([x \in {"slug"} |-> Word("general")])
             ELSE Word(k)])

ErrorAnswer(status) == JsonResponse(status, JMap([k \in {"message"} |-> Word("refused")]))

\* Answers to /pages/import: a page with the title asked for, a page with
\* another title, a page without an id, a list, an error, a 500 whose body is
\* a list, and no answer.
ImportAnswers ==
    {JsonResponse(200, PageWith({"id", "title", "slugId"})),
     JsonResponse(200, PageBody),
     JsonResponse(200, JMap(EmptyDict)),
     JsonResponse(200, JList(<<>>)),
     ErrorAnswer(400),
     JsonResponse(500, JList(<<>>)),
     NoResponse}

\* Answers to /pages/info.
InfoAnswers ==
    {JsonResponse(200, PageWith({"id", "title", "spaceId", "parentPageId", "icon",
                                 "coverPhoto", "space"})),
     JsonResponse(200, PageWith({"spaceId"})),
     JsonResponse(200, PageWith({"title"})),
     JsonResponse(200, JNull),
     ErrorAnswer(404),
     NoResponse}

\* Answers to /pages/delete, /pages/update and /pages/create.
PlainAnswers ==
    {JsonResponse(200, PageWith({"id", "title"})), TextResponse(200, <<>>), ErrorAnswer(401),
     NoResponse}

InitPages ==
    /\ environ = EmptyEnviron
    /\ configFile \in {NoConfigFile, ConfigFileOf([k \in {"url"} |-> Some(<<"h", "/", "api">>)])}
    /\ tokenFile = save_token(<<"s">>)
    /\ client = NoClient
    /\ ctorArgs = NoCtorArgs
    /\ wire = <<>>
    /\ lastResponse = NoResponse
    /\ outcome = NoOutcome
    /\ stdout = <<>>
    /\ exitCode = -1
    /\ cmd = NoCommand
    /\ fs \in {[NoFiles EXCEPT !.caller = c] : c \in {"absent", "present"}}

NextPages ==
    \/ \E c \in Contents, f \in ContentFiles, p \in {None, Some(<<"parent">>)} :
          PagesCreateBegin(<<"s1">>, <<"T">>, c, f, p)
    \/ \E a \in ImportAnswers : PagesCreateUpload(a)
    \/ \E a \in PlainAnswers : PagesCreateTitle(a)
    \/ \E a \in PlainAnswers : PagesCreateEmpty(a)
    \/ \E t \in Titles, c \in Contents, f \in ContentFiles, i \in Icons,
             v \in {None, Some(<<"cover">>)} :
          PagesUpdateBegin(<<"p0">>, t, c, f, i, v)
    \/ \E a \in InfoAnswers : PagesUpdateInfo(a)
    \/ \E a \in BOOLEAN : PagesUpdateConfirm(a)
    \/ \E a \in PlainAnswers : PagesUpdateDelete(a)
    \/ \E a \in ImportAnswers : PagesUpdateUpload(a)
    \/ \E a \in PlainAnswers : PagesUpdateReapply(a)
    \/ \E a \in PlainAnswers : PagesUpdateMeta(a)
    \/ PagesFinally

SpecPages == InitPages /\ [][NextPages]_vars

-----------------------------------------------------------------------------
(* Properties of the client's response handling (SpecResponse).            *)

\* The body as the client decodes it, stated from the response alone.
DecodedBody ==
    IF lastResponse.isJson THEN lastResponse.json
    ELSE [t |-> "dict", m |-> [k \in {"error"} |-> JStr(lastResponse.text)],
          l |-> <<>>, s |-> <<>>]

\* A call of the client got an answer from the server.
Answered == client.made /\ wire # <<>> /\ lastResponse.arrived

RaisedClassified == outcome.kind = "raise" /\ outcome.exc \in DocmostErrorFamily

\* C1: every call of post, post_json or upload_file that gets a response ends
\* either by returning a payload or by raising an error of the DocmostError
\* family; no other exception escapes.
C1_ReturnsOrRaisesClassified ==
    Answered => (outcome.kind = "return" \/ RaisedClassified)

\* C2: the classification depends on the status alone: 401 raises
\* AuthenticationError, 404 NotFoundError, 400 ValidationError, any other
\* status >= 400 DocmostError itself, and a status in 200..299 raises nothing
\* and returns a payload.
C2_ClassifiedByStatusAlone ==
    Answered =>
        LET st == lastResponse.status
        IN  /\ st = 401 => (outcome.kind = "raise" /\ outcome.exc = "AuthenticationError")
            /\ st = 404 => (outcome.kind = "raise" /\ outcome.exc = "NotFoundError")
            /\ st = 400 => (outcome.kind = "raise" /\ outcome.exc = "ValidationError")
            /\ (st >= 400 /\ st \notin {400, 401, 404}) =>
                  (outcome.kind = "raise" /\ outcome.exc = "DocmostError")
            /\ (st >= 200 /\ st <= 299) => outcome.kind = "return"

\* The message the table gives an error of a kind: the body's message field
\* when the body has one, else the default of the kind.
TableMessage(default) ==
    IF DecodedBody.t = "dict" /\ "message" \in DOMAIN DecodedBody.m
    THEN DecodedBody.m["message"]
    ELSE default

\* C3: every classified error raised from a response carries the response's
\* status code and the decoded body (raw text wrapped as {"error": text}),
\* and its message is the fixed re-authentication hint for 401 and otherwise
\* the body's message field or the default of its kind.
C3_ErrorCarriesStatusBodyMessage ==
    (Answered /\ RaisedClassified) =>
        /\ outcome.status_code = lastResponse.status
        /\ outcome.value = DecodedBody
        /\ outcome.exc = "AuthenticationError" =>
              outcome.message = JStr(<<"Authentication failed. Please run 'docmost login'.">>)
        /\ outcome.exc = "NotFoundError" =>
              outcome.message = TableMessage(JStr(<<"Resource not found">>))
        /\ outcome.exc = "ValidationError" =>
              outcome.message = TableMessage(JStr(<<"Validation error">>))
        /\ outcome.exc = "DocmostError" =>
              outcome.message =
                 TableMessage(JStr(<<"API error: ", ToString(lastResponse.status)>>))

\* A 404 with a body that is not JSON raised NotFoundError with the default
\* message and the wrapped text.
C3_Witness ==
    /\ Answered
    /\ lastResponse.status = 404
    /\ ~lastResponse.isJson
    /\ lastResponse.text = <<"plain text">>
    /\ outcome.exc = "NotFoundError"
    /\ outcome.message = JStr(<<"Resource not found">>)

\* C4: on the success path a mapping with all of data, success and status
\* is unwrapped to the value of data, and every other mapping, every list
\* and every wrapped non-JSON body is returned unchanged.
C4_UnwrapOrUnchanged ==
    (Answered /\ lastResponse.status < 400 /\ DecodedBody.t \in {"dict", "list"}) =>
        IF DecodedBody.t = "dict" /\ {"data", "success", "status"} \subseteq DOMAIN DecodedBody.m
        THEN outcome = Return(DecodedBody.m["data"])
        ELSE outcome = Return(DecodedBody)

-----------------------------------------------------------------------------
(* Properties of what goes on the wire (SpecWire).                         *)

ClientOps == {"post", "post_json", "upload_file"}

\* The requests the client has issued.
ClientRequests == {i \in 1..Len(wire) : wire[i].op \in ClientOps}

\* C5: the URL requested is the same whether or not the base URL ends with
\* "/", and there is no double slash where base and endpoint are joined.
C5_TrailingSlashInsensitive ==
    \A i \in ClientRequests :
        LET r == wire[i]
            joinAt == Len(r.url) - Len(r.endpoint)
        IN  /\ client.made
            /\ r.url = JoinUrl(client.url.v \o <<"/">>, r.endpoint)
            /\ (client.url.v[Len(client.url.v)] = "/") =>
                  r.url = JoinUrl(SubSeq(client.url.v, 1, Len(client.url.v) - 1), r.endpoint)
            /\ joinAt >= 0
            /\ SubSeq(r.url, joinAt + 1, Len(r.url)) = r.endpoint
            /\ joinAt >= 1 => r.url[joinAt] # "/"

\* A client whose base ends with two slashes has issued a request.
C5_Witness ==
    /\ client.made
    /\ EndsWith(client.url.v, <<"/", "/">>)
    /\ ClientRequests # {}

\* C7: a request of the client carries Authorization: Bearer <token> exactly
\* when the client holds a non-empty token, always the one token of that
\* client; the login request carries no Authorization header.
C7_BearerIffToken ==
    \A i \in 1..Len(wire) :
        LET r == wire[i]
        IN  IF r.op \in ClientOps
            THEN /\ client.made
                 /\ ("Authorization" \in DOMAIN r.headers) <=> (~client.token.none /\ client.token.v # <<>>)
                 /\ ("Authorization" \in DOMAIN r.headers) =>
                       r.headers["Authorization"] = <<"Bearer ">> \o client.token.v
            ELSE "Authorization" \notin DOMAIN r.headers

\* With a token stored, a client holding it has issued two requests with the
\* header and a login request has gone out without it; or a client without
\* a token has issued a request.
C7_Witness ==
    \/ /\ tokenFile.exists
       /\ Len(wire) >= 2
       /\ wire[1].op = "login"
       /\ wire[2].op \in ClientOps
       /\ "Authorization" \in DOMAIN wire[2].headers
    \/ /\ Len(wire) >= 2
       /\ wire[1].op \in ClientOps
       /\ wire[2].op \in ClientOps
       /\ ~Truthy(client.token)

\* C8: post sends a URL-encoded form with Content-Type
\* application/x-www-form-urlencoded, post_json sends JSON with Content-Type
\* application/json.
C8_EncodingFixedByOperation ==
    \A i \in 1..Len(wire) :
        /\ wire[i].op = "post" =>
              (/\ wire[i].encoding = "form"
               /\ wire[i].headers["Content-Type"] = <<"application/x-www-form-urlencoded">>)
        /\ wire[i].op = "post_json" =>
              (/\ wire[i].encoding = "json"
               /\ wire[i].headers["Content-Type"] = <<"application/json">>)

-----------------------------------------------------------------------------
(* Properties of the constructor (SpecConstruct).                          *)

\* The URL the configuration resolves, stated from the environment and the
\* file: a non-empty DOCMOST_URL, else the file's url key, else none.
ConfiguredUrl ==
    IF (~environ["DOCMOST_URL"].none) /\ environ["DOCMOST_URL"].v # <<>>
    THEN environ["DOCMOST_URL"]
    ELSE IF configFile.exists /\ "url" \in DOMAIN configFile.m THEN configFile.m["url"]
    ELSE None

\* The token the credential store resolves: a non-empty DOCMOST_TOKEN, else
\* the trimmed text of the token file, else none.
StoredToken ==
    IF (~environ["DOCMOST_TOKEN"].none) /\ environ["DOCMOST_TOKEN"].v # <<>>
    THEN environ["DOCMOST_TOKEN"]
    ELSE IF tokenFile.exists THEN Some(strip(tokenFile.text))
    ELSE None

NonEmpty(o) == (~o.none) /\ o.v # <<>>

-----------------------------------------------------------------------------
(* Properties of pages create and pages update (SpecPages).                *)

RequestsTo(endpoint) == {i \in 1..Len(wire) : wire[i].endpoint = endpoint}

C10_DeclineIsNoOp ==
    cmd.answer = "no" =>
        /\ cmd.pc = "done"
        /\ RequestsTo(<<"/", "pages", "/", "delete">>) = {}
        /\ RequestsTo(<<"/", "pages", "/", "import">>) = {}
        /\ \A i \in 1..Len(wire) : wire[i].op # "upload_file"
        /\ fs.staged = "absent"
        /\ stdout # <<>>
        /\ stdout[Len(stdout)] = [stream |-> "out", text |-> "Cancelled", arg |-> JNull]
        /\ outcome.kind = "return"
        /\ exitCode = 0

\* The user declined an update that came with inline content.
C10_Witness ==
    /\ cmd.name = "update"
    /\ cmd.answer = "no"
    /\ ~cmd.content.none
    /\ Len(wire) = 1

-----------------------------------------------------------------------------
(* Properties of the delete-and-reimport procedure (SpecPages).            *)

PagesInfo == <<"/", "pages", "/", "info">>
PagesDelete == <<"/", "pages", "/", "delete">>
PagesImport == <<"/", "pages", "/", "import">>
PagesUpdate == <<"/", "pages", "/", "update">>

\* The endpoints requested so far, in order.
EndpointsOf(w) == [i \in 1..Len(w) |-> w[i].endpoint]

IsPrefix(s, t) == Len(s) <= Len(t) /\ \A i \in 1..Len(s) : s[i] = t[i]

UpdateWithContent ==
    cmd.name = "update" /\ (Truthy(cmd.content) \/ Truthy(cmd.content_file))

\* The step issues a request to the endpoint.
Issues(endpoint) ==
    /\ Len(wire') = Len(wire) + 1
    /\ wire'[Len(wire')].endpoint = endpoint

\* C11: in pages update with content the requests go out in the order info,
\* delete, import, update, each at most once; the delete is issued only
\* after the user said yes; the import is issued only after the delete call
\* returned without raising.
C11_FixedOrderOfCalls ==
    /\ [](UpdateWithContent =>
            /\ IsPrefix(EndpointsOf(wire), <<PagesInfo, PagesDelete, PagesImport, PagesUpdate>>)
            /\ RequestsTo(PagesDelete) # {} => cmd.answer = "yes")
    /\ [][(UpdateWithContent /\ Issues(PagesImport)) =>
            /\ wire[Len(wire)].endpoint = PagesDelete
            /\ lastResponse.arrived
            /\ CallOutcome(lastResponse).kind = "return"]_vars

\* A confirmed update issued all four requests.
C11_Witness ==
    /\ UpdateWithContent
    /\ cmd.pc = "done"
    /\ cmd.answer = "yes"
    /\ EndpointsOf(wire) = <<PagesInfo, PagesDelete, PagesImport, PagesUpdate>>

\* The value of a key read from the original page (None when it has none).
Original(key) == PyGet(cmd.page_info, key, JNull)

\* The requests issued after the delete that carry the key with the value.
Carries(key, value) ==
    \E i \in 1..Len(wire) :
        /\ wire[i].endpoint \in {PagesImport, PagesUpdate}
        /\ key \in DOMAIN wire[i].data
        /\ wire[i].data[key] = value

\* The staged file opens with an H1 of the title.
StagedUnderTitle(title) ==
    /\ fs.staged # "absent"
    /\ title.t = "str"
    /\ IsPrefix(<<"#", " ">> \o title.s, fs.stagedText)

\* A confirmed update with content ended with every call successful.
UpdateSucceeded ==
    /\ UpdateWithContent
    /\ cmd.pc = "done"
    /\ cmd.answer = "yes"
    /\ cmd.pending.kind # "raise"
    /\ exitCode = 0

\* C12: after a confirmed update with content in which every call succeeds,
\* each of title, parent page, space, icon and cover that the caller did not
\* ask to change was sent, with the value read from the original page, with
\* the import or with the follow-up update.
C12_UnchangedMetadataPreserved ==
    UpdateSucceeded =>
        /\ Carries("spaceId", Original("spaceId"))
        /\ (cmd.title.none /\ JTruthy(Original("title"))) =>
              \/ Carries("title", Original("title"))
              \/ StagedUnderTitle(Original("title"))
        /\ (cmd.icon.none /\ JTruthy(Original("icon"))) =>
              Carries("icon", Original("icon"))
        /\ (cmd.cover_photo.none /\ JTruthy(Original("coverPhoto"))) =>
              Carries("coverPhoto", Original("coverPhoto"))
        /\ JTruthy(Original("parentPageId")) =>
              Carries("parentPageId", Original("parentPageId"))

\* The import of a confirmed update raised a classified error.
ImportRaisedClassified ==
    /\ UpdateWithContent
    /\ cmd.pending.kind = "raise"
    /\ cmd.pending.exc \in DocmostErrorFamily
    /\ RequestsTo(PagesImport) # {}
    /\ RequestsTo(PagesUpdate) = {}

\* C13: when the delete succeeded and the import raised a classified error,
\* no further request is issued (the import stays the last and only one),
\* and the command ends with the staged file removed, the error printed and
\* exit status 1.
C13_NoRetryAfterFailedImport ==
    /\ [](ImportRaisedClassified =>
            /\ EndpointsOf(wire) = <<PagesInfo, PagesDelete, PagesImport>>
            /\ cmd.pc \in {"finally", "done"}
            /\ cmd.pc = "done" =>
                  /\ fs.staged # "present"
                  /\ stdout # <<>>
                  /\ stdout[Len(stdout)] = Line("err", "error", cmd.pending.message)
                  /\ exitCode = 1
                  /\ outcome = RaiseOther("SystemExit"))
    /\ [][ImportRaisedClassified => wire' = wire]_vars

\* The import was refused with a 400 and the command has ended.
C13_Witness ==
    /\ ImportRaisedClassified
    /\ cmd.pc = "done"
    /\ cmd.pending.exc = "ValidationError"
    /\ fs.staged = "deleted"

-----------------------------------------------------------------------------
(* Properties of pages create (SpecPages).                                 *)

PagesCreate == <<"/", "pages", "/", "create">>

\* pages create was given --content and has its client.
CreateWithContent == cmd.name = "create" /\ Truthy(cmd.content) /\ client.made

\* The content, ignoring leading whitespace, starts with "#".
LeadingHash(content) == lstrip(content) # <<>> /\ lstrip(content)[1] = "#"

\* The answer to the import is a page: a mapping with an id.
ImportedPage(answer) ==
    /\ CallOutcome(answer).kind = "return"
    /\ CallOutcome(answer).value.t = "dict"
    /\ "id" \in DOMAIN CallOutcome(answer).value.m

ServerTitle(answer) == PyGet(CallOutcome(answer).value, "title", JNull)

C29_ParentIdTransmitted ==
    (cmd.name = "create" /\ Truthy(cmd.parent_id)) =>
        \A i \in RequestsTo(PagesCreate) \cup RequestsTo(PagesImport) :
            /\ "parentPageId" \in DOMAIN wire[i].data
            /\ wire[i].data["parentPageId"] = J(cmd.parent_id)

-----------------------------------------------------------------------------
(* commands/*.py: the handlers that make one client call.                  *)

\* A handler: its name, the endpoint it posts to, the data it sends, the
\* shape of what it does with the result, and the second key under which it
\* looks for a list.
Command(name, endpoint, key, shape, alt) ==
    [name |-> name, endpoint |-> endpoint, data |-> [k \in {key} |-> Word("x")],
     shape |-> shape, alt |-> alt]

\* pages.py:84-92 (output only), spaces.py:53-65 (output and success),
\* spaces.py:164-172 (success only), spaces.py:19-31 (a list looked up with
\* .get), pages.py:325-341 (a list looked up behind isinstance).
PlainCommands ==
    {Command("pages info", <<"/", "pages", "/", "info">>, "pageId", "item", ""),
     Command("spaces create", <<"/", "spaces", "/", "create">>, "name", "item_ok", ""),
     Command("spaces members-remove", <<"/", "spaces", "/", "members", "/", "remove">>,
             "spaceId", "void", ""),
     Command("spaces list", <<"/", "spaces">>, "page", "list", "spaces"),
     Command("pages tree", <<"/", "pages", "/", "sidebar-pages">>, "spaceId",
             "list_guarded", "pages")}

\* pages.py:237-250, spaces.py:99-112, groups.py:101-114, comments.py:108-121.
DeleteCommands ==
    {Command("pages delete", <<"/", "pages", "/", "delete">>, "pageId", "delete", ""),
     Command("spaces delete", <<"/", "spaces", "/", "delete">>, "spaceId", "delete", ""),
     Command("groups delete", <<"/", "groups", "/", "delete">>, "groupId", "delete", ""),
     Command("comments delete", <<"/", "comments", "/", "delete">>, "commentId", "delete", "")}

\* What a handler prints and raises: see Report.
Reported(lines, pending) == [lines |-> lines, pending |-> pending]

\* output(value) followed by success(...) when the handler has one.
Show(c, value, says) ==
    IF OutputRaises(value) THEN Reported(<<>>, RaiseOther("AttributeError"))
    ELSE Reported(<<Line("out", "output", value)>>
                      \o (IF says THEN <<Line("out", "success", JStr(<<c.name>>))>> ELSE <<>>),
                  NoOutcome)

\* spaces.py:24-28: result.get("items", result.get(<alt>, result)), shown as
\* a table when it is a list, else the result itself is shown.
ShowList(c, result) ==
    IF ~HasGet(result) THEN Reported(<<>>, RaiseOther("AttributeError"))
    ELSE LET data == PyGet(result, "items", PyGet(result, c.alt, result))
         IN  Show(c, IF data.t = "list" THEN data ELSE result, FALSE)

\* What the handler does with the result of its client call.
Report(c, result) ==
    CASE c.shape = "item" -> Show(c, result, FALSE)
      [] c.shape = "item_ok" -> Show(c, result, TRUE)
      [] c.shape = "list" -> ShowList(c, result)
      [] c.shape = "list_guarded" ->
            IF result.t = "list" THEN Show(c, result, FALSE) ELSE ShowList(c, result)
      [] OTHER -> Reported(<<Line("out", "success", JStr(<<c.name>>))>>, NoOutcome)

\* The try block of a handler: get_client, the call, the report; then the
\* except clause.
CallAndReport(c, args, answer) ==
    LET made == CommandClient(environ, configFile, tokenFile)
    IN  /\ ctorArgs' = [called |-> TRUE, url |-> CtxUrl(None, environ, configFile),
                        token |-> None]
        /\ IF ~made.made
           THEN /\ cmd' = [args EXCEPT !.pc = "done", !.pending = NoUrlError]
                /\ EndCommand(NoUrlError, stdout)
                /\ UNCHANGED <<client, wire, lastResponse>>
           ELSE /\ client' = made
                /\ Exchange(PostRequest(made, c.endpoint, c.data), answer)
                /\ LET o == CallOutcome(answer)
                       r == IF o.kind = "raise" THEN Reported(<<>>, o) ELSE Report(c, o.value)
                   IN  /\ cmd' = [args EXCEPT !.pc = "done", !.pending = r.pending,
                                              !.result = o.value]
                       /\ EndCommand(r.pending, stdout \o r.lines)

\* A handler without a prompt.
RunCommand(c, answer) ==
    /\ cmd.pc = "idle"
    /\ CallAndReport(c, [cmd EXCEPT !.name = c.name], answer)
    /\ UNCHANGED <<storeVars, fs>>

\* pages.py:239: whether the handler asks before it deletes.
MustConfirmNever(force) == FALSE
MustConfirm(force) == ~force

\* A delete handler: the prompt unless --force, then the call.
DeleteCommand(c, force, said, answer) ==
    /\ cmd.pc = "idle"
    /\ LET asked == MustConfirm(force)
           args == [cmd EXCEPT !.name = c.name, !.force = force,
                               !.answer = IF ~asked THEN "" ELSE IF said THEN "yes" ELSE "no"]
       IN  IF asked /\ ~said
           THEN /\ cmd' = [args EXCEPT !.pc = "done"]
                /\ EndCommand(NoOutcome, Append(stdout, Line("out", "Cancelled", JNull)))
                /\ UNCHANGED <<client, ctorArgs, wire, lastResponse>>
           ELSE CallAndReport(c, args, answer)
    /\ UNCHANGED <<storeVars, fs>>

\* SpecCommands: one run of one command: pages create, pages update, or a
\* handler that makes one client call; possibly after a login.
InitCommands == InitPages

NextCommands ==
    \/ NextPages
    \/ \E a \in WireLoginAnswers :
          cmd.pc = "idle" /\ wire = <<>> /\ Login(<<"h", "/">>, a)
    \/ \E c \in PlainCommands, a \in Answers : RunCommand(c, a)
    \/ \E c \in DeleteCommands, f \in BOOLEAN, y \in BOOLEAN, a \in PlainAnswers :
          DeleteCommand(c, f, y, a)

SpecCommands == InitCommands /\ [][NextCommands]_vars

-----------------------------------------------------------------------------
(* SpecLists: one run of a handler that shows a list.                      *)

\* The handlers that look the list up with .get on the result (spaces.py:24,
\* 125, groups.py:28, 127, comments.py:25, workspace.py:70, 95) and those
\* that first test isinstance(result, list) (pages.py:331, 358, 447, 469,
\* search.py:24, 57).
ListCommands ==
    {Command("spaces list", <<"/", "spaces">>, "page", "list", "spaces"),
     Command("spaces members", <<"/", "spaces", "/", "members">>, "spaceId", "list", "members"),
     Command("groups list", <<"/", "groups", "/", "list">>, "page", "list", "groups"),
     Command("groups members", <<"/", "groups", "/", "members">>, "groupId", "list", "members"),
     Command("comments list", <<"/", "comments", "/", "list">>, "pageId", "list", "comments"),
     Command("workspace members", <<"/", "workspace", "/", "members">>, "page", "list",
             "members"),
     Command("workspace invites list", <<"/", "workspace", "/", "invitations", "/", "list">>,
             "page", "list", "invitations"),
     Command("pages tree", <<"/", "pages", "/", "sidebar-pages">>, "spaceId", "list_guarded",
             "pages"),
     Command("pages recent", <<"/", "pages", "/", "recent">>, "page", "list_guarded", "pages"),
     Command("pages history", <<"/", "pages", "/", "history">>, "pageId", "list_guarded",
             "history"),
     Command("pages breadcrumbs", <<"/", "pages", "/", "breadcrumbs">>, "pageId",
             "list_guarded", "breadcrumbs"),
     Command("search", <<"/", "search">>, "query", "list_guarded", "results"),
     Command("suggest", <<"/", "search", "/", "suggest">>, "query", "list_guarded",
             "suggestions")}

\* The payloads of a list endpoint: a bare list, a mapping with the list
\* under "items", under the resource's key, under both, and a mapping
\* with neither.
ListPayloads(alt) ==
    {JList(<<>>), JList(<<PageBody>>),
     JMap([k \in {"items"} |-> JList(<<PageBody>>)]),
     JMap([k \in {alt} |-> JList(<<PageBody>>)]),
     JMap([k \in {"items", alt} |-> IF k = "items" THEN JList(<<PageBody>>) ELSE JList(<<>>)]),
     PageBody}

\* A payload comes bare or in the server's envelope.
ListAnswers(alt) ==
    {JsonResponse(200, p) : p \in ListPayloads(alt)}
      \cup {JsonResponse(200, JMap([k \in {"data", "success"} |->
                                       IF k = "data" THEN p ELSE JTrue])) :
               p \in ListPayloads(alt)}
      \cup {ErrorAnswer(404), NoResponse}

InitLists == InitPages

NextLists == \E c \in ListCommands : \E a \in ListAnswers(c.alt) : RunCommand(c, a)

SpecLists == InitLists /\ [][NextLists]_vars

-----------------------------------------------------------------------------
(* Properties of the list handlers (SpecLists).                            *)

ListNames == {c.name : c \in ListCommands}

ResourceKey(name) == (CHOOSE c \in ListCommands : c.name = name).alt

IsList(payload, key) == key \in DOMAIN payload.m /\ payload.m[key].t = "list"

\* What the rule says is shown for a payload.
Rendered(payload, key) ==
    IF payload.t = "list" THEN payload
    ELSE IF IsList(payload, "items") THEN payload.m["items"]
    ELSE IF IsList(payload, key) THEN payload.m[key]
    ELSE payload

\* C26: every list command whose call succeeded shows the payload itself
\* when it is a bare list, and for a mapping the list under "items", else
\* the list under the resource's key, else the mapping; and exits 0.
C26_ListShapesUniform ==
    (cmd.name \in ListNames /\ cmd.pc = "done" /\ wire # <<>> /\ lastResponse.arrived
        /\ CallOutcome(lastResponse).kind = "return") =>
        /\ exitCode = 0
        /\ stdout = <<Line("out", "output",
                           Rendered(CallOutcome(lastResponse).value, ResourceKey(cmd.name)))>>

-----------------------------------------------------------------------------
(* Properties of the command handlers (SpecCommands).                      *)

DeleteNames == {c.name : c \in DeleteCommands}

DeleteEndpoint(name) == (CHOOSE c \in DeleteCommands : c.name = name).endpoint

Cancelled == Line("out", "Cancelled", JNull)

SuccessTexts ==
    {"success", "created", "created with content", "updated", "updated with new content"}

PrintedSuccess == \E i \in 1..Len(stdout) : stdout[i].text \in SuccessTexts

\* The command made client calls and every one of them returned.
AllCallsSucceeded ==
    /\ ClientRequests # {}
    /\ wire[Len(wire)].op \in ClientOps
    /\ lastResponse.arrived
    /\ CallOutcome(lastResponse).kind = "return"
    /\ cmd.pending.exc # "FileNotFoundError"

\* C15: a command in which a classified error was raised prints the
\* error's message, prints no success message and exits 1; a command whose
\* client calls all succeeded exits 0.
C15_ExitStatusByOutcome ==
    cmd.pc = "done" =>
        /\ (cmd.pending.kind = "raise" /\ cmd.pending.exc \in DocmostErrorFamily) =>
              /\ stdout # <<>>
              /\ stdout[Len(stdout)] = Line("err", "error", cmd.pending.message)
              /\ ~PrintedSuccess
              /\ exitCode = 1
        /\ AllCallsSucceeded => exitCode = 0

\* The last request got no answer: the transport failed.
TransportFailed == wire # <<>> /\ ~lastResponse.arrived

\* C16: a transport failure during a client call reaches the command as a
\* ConnectionError of the DocmostError family, the request is not repeated,
\* and the command (a resource command or login) prints a connection error
\* message and exits 1.
C16_TransportFailureClassified ==
    /\ (TransportFailed /\ wire[Len(wire)].op \in ClientOps /\ cmd.pc = "done") =>
          /\ cmd.pending.kind = "raise"
          /\ cmd.pending.exc = "ConnectionError"
          /\ stdout # <<>>
          /\ stdout[Len(stdout)].stream = "err"
          /\ exitCode = 1
    /\ (TransportFailed /\ wire[Len(wire)].op = "login" /\ cmd.pc = "idle") =>
          /\ stdout = <<Line("err", "Connection error", JNull)>>
          /\ exitCode = 1
    /\ TransportFailed => \A i \in 1..Len(wire) - 1 : wire[i] # wire[Len(wire)]

-----------------------------------------------------------------------------
(* SpecLogin: one login, every answer.                                     *)

TopLevelKeys == {"token", "accessToken", "access_token"}

\* The token each location of a body holds.
TokenAt(k) ==
    CASE k = "token" -> Word("t1")
      [] k = "accessToken" -> Word("t2")
      [] k = "access_token" -> Word("t3")
      [] OTHER -> Word("?")

\* What the body's data key may hold: tokens under one or both names, empty
\* tokens, no tokens, something that is no mapping.
NestedValues ==
    {JMap([k \in {"tokens"} |-> JMap([x \in names |-> Word("n_" \o x)])]) :
        names \in SUBSET {"accessToken", "access_token"}}
      \cup {JMap([k \in {"tokens"} |-> JMap([x \in {"accessToken"} |-> JStr(<<>>)])]),
            JMap([k \in {"tokens"} |-> JList(<<>>)]),
            JMap(EmptyDict), Word("data"), JNull}

\* Bodies of a login response: every subset of the top-level keys, with and
\* without a data key; an empty top-level token; bodies that are no mapping.
LoginBodies ==
    {JMap([k \in keys |-> TokenAt(k)]) : keys \in SUBSET TopLevelKeys}
      \cup {JMap([k \in keys \cup {"data"} |-> IF k = "data" THEN n ELSE TokenAt(k)]) :
               keys \in SUBSET TopLevelKeys, n \in NestedValues}
      \cup {JMap([k \in {"token", "accessToken"} |->
                     IF k = "token" THEN JStr(<<>>) ELSE TokenAt(k)]),
            JMap([k \in {"message"} |-> Word("success but no token")]),
            JList(<<>>), JList(<<Word("data")>>), JStr(<<"data">>), JNull}

LoginAnswers ==
    {LoginResponse(200, c, b) : c \in {None, Some(<<"c">>)}, b \in LoginBodies}
      \cup {[TextResponse(200, <<"ok">>) EXCEPT !.cookie = c] : c \in {None, Some(<<"c">>)}}
      \cup {LoginResponse(401, None, JMap(EmptyDict)),
            LoginResponse(500, Some(<<"c">>), JMap([k \in {"token"} |-> TokenAt(k)])),
            NoResponse}

LoginUrls == {<<"h">>, <<"h", "/">>, <<"h", "/", "api">>}

InitLogin ==
    /\ environ = EmptyEnviron
    /\ configFile = NoConfigFile
    /\ tokenFile \in {NoTokenFile, save_token(<<"old">>)}
    /\ Idle

NextLogin == \E u \in LoginUrls, a \in LoginAnswers : wire = <<>> /\ Login(u, a)

SpecLogin == InitLogin /\ [][NextLogin]_vars

-----------------------------------------------------------------------------
(* Properties of login (SpecLogin).                                        *)

\* The value at a top-level key of the body, when it is a non-empty string.
BodyToken(body, key) ==
    IF body.t = "dict" /\ key \in DOMAIN body.m /\ body.m[key].t = "str"
    THEN body.m[key].s ELSE <<>>

\* The value at data.tokens.<key>, when it is a non-empty string.
NestedBodyToken(body, key) ==
    IF /\ body.t = "dict" /\ "data" \in DOMAIN body.m
       /\ body.m["data"].t = "dict" /\ "tokens" \in DOMAIN body.m["data"].m
    THEN BodyToken(body.m["data"].m["tokens"], key)
    ELSE <<>>

RECURSIVE FirstNonEmpty(_)
FirstNonEmpty(candidates) ==
    IF candidates = <<>> THEN <<>>
    ELSE IF Head(candidates) # <<>> THEN Head(candidates)
    ELSE FirstNonEmpty(Tail(candidates))

\* The token the stated order selects: the cookie, else token, accessToken,
\* access_token, data.tokens.accessToken, data.tokens.access_token.
StatedToken(response) ==
    IF Truthy(response.cookie) THEN response.cookie.v
    ELSE IF ~response.isJson THEN <<>>
    ELSE FirstNonEmpty(<<BodyToken(response.json, "token"),
                         BodyToken(response.json, "accessToken"),
                         BodyToken(response.json, "access_token"),
                         NestedBodyToken(response.json, "accessToken"),
                         NestedBodyToken(response.json, "access_token")>>)

\* C17: on a 200 login response the token saved is the cookie's, else the
\* first non-empty of token, accessToken, access_token,
\* data.tokens.accessToken, data.tokens.access_token; when no location holds
\* a token, whatever the body, login prints 'No token received from server',
\* saves nothing and exits 1.
C17_LoginTokenOrder ==
    [][(Issues(<<"/", "auth", "/", "login">>) /\ lastResponse'.arrived
            /\ lastResponse'.status = 200) =>
          IF StatedToken(lastResponse') # <<>>
          THEN /\ tokenFile' = save_token(StatedToken(lastResponse'))
               /\ exitCode' = 0
          ELSE /\ tokenFile' = tokenFile
               /\ configFile' = configFile
               /\ stdout' = Append(stdout, Line("err", "No token received from server", JNull))
               /\ exitCode' = 1]_vars

-----------------------------------------------------------------------------
(* pages export (commands/pages.py:371-433).                               *)
(*                                                                         *)
(* Bytes are symbols.  A ZIP archive is the signature "P","K", then one    *)
(* record per entry in listing order (a length digit and that many         *)
(* bytes), then the end-of-directory byte "Z".                             *)

Digit(n) == IF n = 0 THEN "0" ELSE IF n = 1 THEN "1" ELSE "2"
Length(d) == IF d = "0" THEN 0 ELSE IF d = "1" THEN 1 ELSE IF d = "2" THEN 2 ELSE -1

\* bytes.decode("utf-8"): an ASCII byte is its character, the two bytes
\* C3 A9 are one character, anything else is a UnicodeDecodeError.
RECURSIVE Utf8Decode(_)
Utf8Decode(bytes) ==
    IF bytes = <<>> THEN [ok |-> TRUE, text |-> <<>>]
    ELSE IF bytes[1] = "C3"
    THEN IF Len(bytes) >= 2 /\ bytes[2] = "A9"
         THEN LET rest == Utf8Decode(SubSeq(bytes, 3, Len(bytes)))
              IN  [ok |-> rest.ok, text |-> <<"eacute">> \o rest.text]
         ELSE [ok |-> FALSE, text |-> <<>>]
    ELSE IF bytes[1] = "A9" THEN [ok |-> FALSE, text |-> <<>>]
    ELSE LET rest == Utf8Decode(Tail(bytes))
         IN  [ok |-> rest.ok, text |-> <<bytes[1]>> \o rest.text]

Decoded(bytes) ==
    IF Utf8Decode(bytes).ok THEN Return(JStr(Utf8Decode(bytes).text))
    ELSE RaiseOther("UnicodeDecodeError")

\* zipfile.ZipFile(...).namelist() with each entry's bytes: the entries in
\* listing order, or not a ZIP file.
RECURSIVE ZipRecords(_)
ZipRecords(bytes) ==
    IF bytes = <<>> THEN [ok |-> FALSE, entries |-> <<>>]
    ELSE IF bytes[1] = "Z" THEN [ok |-> Len(bytes) = 1, entries |-> <<>>]
    ELSE LET n == Length(bytes[1])
         IN  IF n < 0 \/ Len(bytes) < 1 + n THEN [ok |-> FALSE, entries |-> <<>>]
             ELSE LET rest == ZipRecords(SubSeq(bytes, n + 2, Len(bytes)))
                  IN  [ok |-> rest.ok,
                       entries |-> <<SubSeq(bytes, 2, n + 1)>> \o rest.entries]

ZipFile(zip_data) ==
    IF Len(zip_data) >= 2 /\ SubSeq(zip_data, 1, 2) = <<"P", "K">>
    THEN ZipRecords(SubSeq(zip_data, 3, Len(zip_data)))
    ELSE [ok |-> FALSE, entries |-> <<>>]

\* pages.py:371-391: extract_content_from_zip.
LastEntry(entries) == entries[Len(entries)]
FirstEntry(entries) == entries[1]
extract_content_from_zip(zip_data) ==
    LET zf == ZipFile(zip_data)
    IN  IF ~zf.ok THEN RaiseOther("BadZipFile")
        ELSE IF zf.entries = <<>>
        THEN Raise("DocmostError", JStr(<<"Export ZIP file is empty">>), 0, JNull)
        ELSE Decoded(FirstEntry(zf.entries))

\* pages.py:418-423: the content of the raw export payload.
HasSignature(raw_data) == SubSeq(raw_data, 1, IF Len(raw_data) < 2 THEN Len(raw_data) ELSE 2) = <<"P", "K">>
ExportContent(raw_data) ==
    IF HasSignature(raw_data) THEN extract_content_from_zip(raw_data)
    ELSE Decoded(raw_data)

\* pages.py:418-423 applied to a payload.
DecodeExport(raw_data) ==
    /\ cmd.pc = "idle"
    /\ cmd' = [cmd EXCEPT !.name = "decode", !.content = Some(raw_data)]
    /\ outcome' = ExportContent(raw_data)
    /\ UNCHANGED <<storeVars, client, ctorArgs, wire, lastResponse, cmdVars, fs>>

\* pages export   (pages.py:406-433): get_client, then the lookup of
\* client.post_binary, an attribute DocmostClient (client.py:38-188) does
\* not have.
PagesExport(page_id, export_format, output_path) ==
    /\ cmd.pc = "idle"
    /\ LET c == CommandClient(environ, configFile, tokenFile)
           pending == IF c.made THEN RaiseOther("AttributeError") ELSE NoUrlError
       IN  /\ ctorArgs' = [called |-> TRUE, url |-> CtxUrl(None, environ, configFile),
                           token |-> None]
           /\ client' = IF c.made THEN c ELSE NoClient
           /\ cmd' = [cmd EXCEPT !.name = "export", !.pc = "done", !.page_id = Some(page_id),
                                 !.content_file = output_path,
                                 !.title = Some(<<export_format>>), !.pending = pending]
           /\ EndCommand(pending, stdout)
    /\ UNCHANGED <<storeVars, wire, lastResponse, fs>>

-----------------------------------------------------------------------------
(* SpecToken: the credential store under every sequence of its operations. *)

\* auth.py:10-24: a call of get_token.
GetToken ==
    /\ cmd.pc = "idle"
    /\ cmd' = [cmd EXCEPT !.name = "get_token"]
    /\ outcome' = Return(J(get_token(environ, tokenFile)))
    /\ UNCHANGED <<storeVars, client, ctorArgs, wire, lastResponse, cmdVars, fs>>

\* auth.py:45-47: a call of is_authenticated.
IsAuthenticated ==
    /\ cmd.pc = "idle"
    /\ cmd' = [cmd EXCEPT !.name = "is_authenticated"]
    /\ outcome' = Return(IF is_authenticated(environ, tokenFile) THEN JTrue ELSE JFalse)
    /\ UNCHANGED <<storeVars, client, ctorArgs, wire, lastResponse, cmdVars, fs>>

\* auth.py:29-32: save_token up to the write.
SaveTokenWrite(token, created) ==
    /\ cmd.pc = "idle"
    /\ cmd' = [cmd EXCEPT !.name = "save_token", !.pc = "save_chmod", !.token = Some(token)]
    /\ tokenFile' = write_text(tokenFile, token, created)
    /\ outcome' = NoOutcome
    /\ UNCHANGED <<environ, configFile, client, ctorArgs, wire, lastResponse, cmdVars, fs>>

\* auth.py:35: save_token's chmod, and its return.
SaveTokenChmod ==
    /\ cmd.pc = "save_chmod"
    /\ cmd' = [cmd EXCEPT !.pc = "idle"]
    /\ tokenFile' = chmod600(tokenFile)
    /\ outcome' = Return(JNull)
    /\ UNCHANGED <<environ, configFile, client, ctorArgs, wire, lastResponse, cmdVars, fs>>

\* auth.py:38-42: a call of delete_token.
DeleteToken ==
    /\ cmd.pc = "idle"
    /\ cmd' = [cmd EXCEPT !.name = "delete_token", !.token = None]
    /\ tokenFile' = delete_token(tokenFile)
    /\ outcome' = Return(JNull)
    /\ UNCHANGED <<environ, configFile, client, ctorArgs, wire, lastResponse, cmdVars, fs>>

Tokens == {<<"s">>, <<" ", "s", "\n">>, <<"u">>, <<" ">>, <<>>}

\* The permissions a new file gets under umask 022, 002 and 077.
CreatedModes == {"0644", "0664", "0600"}

TokenEnvirons ==
    {[EmptyEnviron EXCEPT !["DOCMOST_TOKEN"] = e] : e \in {None, Some(<<>>), Some(<<"e">>), Some(<<" ", "e">>)}}

InitToken ==
    /\ environ \in TokenEnvirons
    /\ configFile = NoConfigFile
    /\ client = NoClient
    /\ ctorArgs = NoCtorArgs
    /\ wire = <<>>
    /\ lastResponse = NoResponse
    /\ outcome = NoOutcome
    /\ stdout = <<>>
    /\ exitCode = -1
    /\ fs = NoFiles
    /\ \/ tokenFile = NoTokenFile /\ cmd = NoCommand
       \/ \E t \in Tokens :
             tokenFile = save_token(t) /\ cmd = [NoCommand EXCEPT !.token = Some(t)]

NextToken ==
    \/ GetToken
    \/ IsAuthenticated
    \/ \E t \in Tokens, m \in CreatedModes : SaveTokenWrite(t, m)
    \/ SaveTokenChmod
    \/ DeleteToken

SpecToken == InitToken /\ [][NextToken]_vars

-----------------------------------------------------------------------------
(* Properties of the credential store (SpecToken).                         *)

EnvToken == NonEmpty(environ["DOCMOST_TOKEN"])

\* C18: get_token yields the environment token when there is one, else the
\* trimmed contents of the token file when it exists, else None; and
\* is_authenticated is true exactly when get_token yields a credential.
\* (An environment variable set to the empty string is no token.)
C18_TokenPrecedence ==
    /\ cmd.name = "get_token" =>
          /\ outcome.kind = "return"
          /\ EnvToken => outcome.value = JStr(environ["DOCMOST_TOKEN"].v)
          /\ (~EnvToken /\ tokenFile.exists) => outcome.value = JStr(strip(tokenFile.text))
          /\ (~EnvToken /\ ~tokenFile.exists) => outcome.value = JNull
    /\ cmd.name = "is_authenticated" =>
          outcome = Return(IF EnvToken \/ tokenFile.exists THEN JTrue ELSE JFalse)

\* get_token was called with both an environment token and a token file.
C18_Witness ==
    /\ cmd.name = "get_token"
    /\ environ["DOCMOST_TOKEN"] = Some(<<"e">>)
    /\ tokenFile.exists
    /\ outcome.value = JStr(<<"e">>)

NoOverride == ~EnvToken

\* The trimmed argument of the latest save_token, None after a delete_token.
LatestSaved == IF cmd.token.none THEN None ELSE Some(strip(cmd.token.v))

\* C19: with no environment override, get_token returns the trimmed
\* argument of the most recent save_token unless a delete_token came after
\* it, and None otherwise; delete_token on a missing file raises nothing and
\* changes nothing.
C19_SaveDeleteGet ==
    /\ []((NoOverride /\ cmd.pc = "idle") =>
            /\ get_token(environ, tokenFile) = LatestSaved
            /\ cmd.name = "get_token" => outcome = Return(J(LatestSaved)))
    /\ [][(cmd'.name = "delete_token" /\ cmd' # cmd /\ ~tokenFile.exists) =>
            /\ tokenFile' = tokenFile
            /\ outcome' = Return(JNull)]_vars

\* A token with surrounding whitespace was saved, then asked for.
C19_Witness ==
    /\ NoOverride
    /\ cmd.name = "get_token"
    /\ cmd.token = Some(<<" ", "s", "\n">>)
    /\ tokenFile.exists
    /\ outcome = Return(JStr(<<"s">>))

\* C20: whenever the token file exists with a token written by save_token,
\* at every step of save_token, its permission bits are 0600.
C20_TokenFileOwnerOnly ==
    (tokenFile.exists /\ ~cmd.token.none /\ tokenFile.text = cmd.token.v) =>
        tokenFile.mode = "0600"

-----------------------------------------------------------------------------
(* pages move (commands/pages.py:253-319).                                 *)
(*                                                                         *)
(* Python's integers are unbounded; val is held as its base-62 digits,     *)
(* least significant first, so that no intermediate value leaves the       *)
(* range of the model's integers.                                          *)

\* pages.py:262: the base62 alphabet.
alphabet ==
    <<"0", "1", "2", "3", "4", "5", "6", "7", "8", "9",
      "A", "B", "C", "D", "E", "F", "G", "H", "I", "J", "K", "L", "M",
      "N", "O", "P", "Q", "R", "S", "T", "U", "V", "W", "X", "Y", "Z",
      "a", "b", "c", "d", "e", "f", "g", "h", "i", "j", "k", "l", "m",
      "n", "o", "p", "q", "r", "s", "t", "u", "v", "w", "x", "y", "z">>

\* pages.py:271-273: the digits of val, least significant first; none for 0.
RECURSIVE Base62(_)
Base62(val) == IF val > 0 THEN <<val % 62>> \o Base62(val \div 62) ELSE <<>>

\* digits * k + carry, digit by digit.
RECURSIVE Times(_, _, _)
Times(digits, k, carry) ==
    IF digits = <<>> THEN Base62(carry)
    ELSE LET x == digits[1] * k + carry
         IN  <<x % 62>> \o Times(Tail(digits), k, x \div 62)

\* a + b + carry, digit by digit.
RECURSIVE Plus(_, _, _)
Plus(a, b, carry) ==
    IF a = <<>> /\ b = <<>> THEN Base62(carry)
    ELSE LET x == (IF a = <<>> THEN 0 ELSE a[1]) + (IF b = <<>> THEN 0 ELSE b[1]) + carry
         IN  <<x % 62>> \o Plus(IF a = <<>> THEN a ELSE Tail(a),
                                IF b = <<>> THEN b ELSE Tail(b), x \div 62)

\* The digits without zeros at the most significant end.
RECURSIVE Significant(_)
Significant(digits) ==
    IF digits # <<>> /\ digits[Len(digits)] = 0
    THEN Significant(SubSeq(digits, 1, Len(digits) - 1))
    ELSE digits

Reversed(s) == [i \in 1..Len(s) |-> s[Len(s) + 1 - i]]

\* str.zfill(width) of a string with no sign.
zfill_keeps(s, width) == s
zfill(s, width) ==
    IF Len(s) >= width THEN s ELSE [i \in 1..(width - Len(s)) |-> "0"] \o s

\* pages.py:253-279: generate_position, given the clock's milliseconds
\* modulo 62**4 and the random digit; index as base-62 digits.
generate_position(index, ts, random) ==
    LET val == Significant(Plus(Times(Base62(ts), 1000, 0), Times(index, 10, random), 0))
        result == [i \in 1..Len(val) |-> alphabet[val[i] + 1]]
        pos == <<"a">> \o zfill(Reversed(result), 5)
    IN  SubSeq(pos, 1, IF Len(pos) < 12 THEN Len(pos) ELSE 12)

\* A call of generate_position(index).
GeneratePosition(index, ts, random) ==
    /\ cmd.pc = "idle"
    /\ cmd' = [cmd EXCEPT !.name = "generate_position"]
    /\ outcome' = Return(JStr(generate_position(index, ts, random)))
    /\ UNCHANGED <<storeVars, client, ctorArgs, wire, lastResponse, cmdVars, fs>>

\* pages.py:300-313: the data of the move request.
MoveData(page_id, parent_id, position, after, before, ts, random) ==
    LET d0 == [k \in {"pageId", "position"} |->
                  IF k = "pageId" THEN JStr(page_id)
                  ELSE IF Truthy(position) THEN JStr(position.v)
                  ELSE JStr(generate_position(<<>>, ts, random))]
        d1 == IF parent_id.none THEN d0
              ELSE Put(d0, "parentPageId", IF Truthy(parent_id) THEN J(parent_id) ELSE JNull)
        d2 == IF Truthy(after) THEN Put(d1, "afterPageId", J(after)) ELSE d1
    IN  IF Truthy(before) THEN Put(d2, "beforePageId", J(before)) ELSE d2

\* pages move   (pages.py:289-319)
PagesMove(page_id, parent_id, position, after, before, ts, random, answer) ==
    /\ cmd.pc = "idle"
    /\ CallAndReport([Command("pages move", <<"/", "pages", "/", "move">>, "pageId",
                              "item_ok", "")
                         EXCEPT !.data = MoveData(page_id, parent_id, position, after, before,
                                                  ts, random)],
                     [cmd EXCEPT !.name = "pages move", !.page_id = Some(page_id),
                                 !.parent_id = parent_id, !.position = position],
                     answer)
    /\ UNCHANGED <<storeVars, fs>>

-----------------------------------------------------------------------------
(* SpecPosition: generate_position on its inputs, and pages move.          *)

\* 62**4 - 1 is the largest value the clock term takes.
Clock == {0, 1, 61, 62, 3844, 238328, 1234567, 14776335}

\* index: 0, 1, 62**2 - 1, and 62**12 - 1.
Indexes == {<<>>, <<1>>, <<61, 61>>, [i \in 1..12 |-> 61]}

Positions == {None, Some(<<>>), Some(<<"a", "0", "0", "0", "1">>), Some(<<"!">>)}

InitPosition == InitPages

NextPosition ==
    \/ \E i \in Indexes, ts \in Clock, r \in 0..9 : GeneratePosition(i, ts, r)
    \/ \E parent \in {None, Some(<<>>), Some(<<"p1">>)}, pos \in Positions,
          after \in {None, Some(<<"p2">>)}, ts \in {0, 14776335}, r \in {0, 9},
          a \in PlainAnswers :
          PagesMove(<<"p0">>, parent, pos, after, None, ts, r, a)

SpecPosition == InitPosition /\ [][NextPosition]_vars

-----------------------------------------------------------------------------
(* Properties of pages move (SpecPosition).                                *)

Alphanumeric == {alphabet[i] : i \in 1..62}

\* 5 to 12 characters, the first an "a", the others alphanumeric.
WellFormedPosition(pos) ==
    /\ Len(pos) \in 5..12
    /\ pos[1] = "a"
    /\ \A i \in 2..Len(pos) : pos[i] \in Alphanumeric

MoveRequests == {i \in 1..Len(wire) : wire[i].endpoint = <<"/", "pages", "/", "move">>}

\* C24: generate_position returns 5 to 12 characters, the first the fixed
\* leading symbol "a" and the others of the 62-symbol alphabet, for every
\* clock value, index and random digit; pages move sends a --position that
\* was given as it was given, and a generated one when none was given.
C24_PositionWellFormed ==
    /\ cmd.name = "generate_position" => WellFormedPosition(outcome.value.s)
    /\ cmd.name = "pages move" =>
          \A i \in MoveRequests :
             IF Truthy(cmd.position)
             THEN wire[i].data["position"] = JStr(cmd.position.v)
             ELSE WellFormedPosition(wire[i].data["position"].s)

\* A call with the largest clock value and an index of twelve digits gave a
\* position cut to 12 characters.
C24_Witness ==
    /\ cmd.name = "generate_position"
    /\ Len(outcome.value.s) = 12
    /\ outcome.value.s[2] = "9"

-----------------------------------------------------------------------------
(* SpecExport: the export command, and the decoding of every payload.     *)

\* The bytes of an archive with the given entries, in listing order.
RECURSIVE ZipRecordsOf(_)
ZipRecordsOf(entries) ==
    IF entries = <<>> THEN <<"Z">>
    ELSE <<Digit(Len(entries[1]))>> \o entries[1] \o ZipRecordsOf(Tail(entries))
ZipOf(entries) == <<"P", "K">> \o ZipRecordsOf(entries)

\* What an entry, or a payload that is no archive, may hold: text, text of
\* a two-byte character, a truncated character, and text that begins "PK".
EntryBytes == {<<>>, <<"#">>, <<"#", "b">>, <<"C3", "A9">>, <<"C3">>, <<"P", "K">>}

Archives ==
    {<<>>} \cup {<<c>> : c \in EntryBytes} \cup {<<c, d>> : c \in EntryBytes, d \in {<<"#">>, <<"b">>}}

\* Payloads that begin with the signature and are no archive, or that are
\* too short to have one.
BrokenPayloads ==
    {<<"P", "K">>, <<"P", "K", "b">>, <<"P", "K", "2", "b">>, <<"P", "K", "1", "b">>,
     <<"P", "K", "Z", "b">>, <<"P">>, <<"K", "P", "Z">>}

RawPayloads == EntryBytes \cup {ZipOf(es) : es \in Archives} \cup BrokenPayloads

InitExport ==
    /\ environ = EmptyEnviron
    /\ configFile \in {NoConfigFile, ConfigFileOf([k \in {"url"} |-> Some(<<"h", "/", "api">>)])}
    /\ tokenFile \in {NoTokenFile, save_token(<<"s">>)}
    /\ Idle

NextExport ==
    \/ \E f \in {"markdown", "html"}, o \in {None, Some(<<"out.md">>)} :
          PagesExport(<<"p0">>, f, o)
    \/ \E raw \in RawPayloads : DecodeExport(raw)

SpecExport == InitExport /\ [][NextExport]_vars

-----------------------------------------------------------------------------
(* Properties of the export (SpecExport).                                  *)

DecodedPayload == cmd.content.v

C22_MalformedArchiveClassified ==
    (cmd.name = "decode" /\ HasSignature(DecodedPayload)) =>
        /\ outcome.kind = "return" \/ RaisedClassified
        /\ DecodedPayload = ZipOf(<<>>) =>
              /\ outcome.kind = "raise"
              /\ outcome.exc = "DataError"
              /\ outcome.message = JStr(<<"export archive is empty">>)

PagesExportEndpoint == <<"/", "pages", "/", "export">>

\* C23: pages export with a client sends one request to /pages/export; on
\* a 2xx answer it prints the decoded content (or the name of the --output
\* file) and exits 0; on a status >= 400 it exits 1 with the error of the
\* DocmostError family that the JSON path raises for that status.
C23_ExportThroughClient ==
    (cmd.name = "export" /\ client.made) =>
        /\ Len(wire) = 1
        /\ wire[1].endpoint = PagesExportEndpoint
        /\ (lastResponse.arrived /\ lastResponse.status \in 200..299) =>
              exitCode = 0 /\ stdout # <<>>
        /\ (lastResponse.arrived /\ lastResponse.status >= 400) =>
              /\ exitCode = 1
              /\ cmd.pending.kind = "raise"
              /\ cmd.pending.exc = CallOutcome(lastResponse).exc

-----------------------------------------------------------------------------
(* commands/auth.py: logout; SpecSession: a login, a logout and a command. *)

\* commands/auth.py:82: whether logout deletes the token.
LogoutDeletesNever(env, tfile) == FALSE
LogoutDeletes(env, tfile) == is_authenticated(env, tfile)

\* docmost logout   (commands/auth.py:79-86)
Logout ==
    /\ cmd.pc = "idle"
    /\ cmd.name # "logout"
    /\ cmd' = [cmd EXCEPT !.name = "logout"]
    /\ IF LogoutDeletes(environ, tokenFile)
       THEN /\ tokenFile' = delete_token(tokenFile)
            /\ stdout' = Append(stdout, Line("out", "Logged out successfully", JNull))
       ELSE /\ tokenFile' = tokenFile
            /\ stdout' = Append(stdout, Line("out", "Not currently logged in", JNull))
    /\ exitCode' = 0
    /\ outcome' = Return(JNull)
    /\ UNCHANGED <<environ, configFile, client, ctorArgs, wire, lastResponse, fs>>

\* The environment of the invocation: nothing set, a token, a URL, a format
\* and a space, or all of them.
SessionEnvirons ==
    {EmptyEnviron,
     [EmptyEnviron EXCEPT !["DOCMOST_TOKEN"] = Some(<<"et">>)],
     [EmptyEnviron EXCEPT !["DOCMOST_URL"] = Some(<<"e", "/", "api">>)],
     [EmptyEnviron EXCEPT !["DOCMOST_FORMAT"] = Some(<<"json">>),
                          !["DOCMOST_SPACE"] = Some(<<"es">>)],
     [n \in EnvNames |->
         IF n = "DOCMOST_URL" THEN Some(<<"e", "/", "api">>)
         ELSE IF n = "DOCMOST_TOKEN" THEN Some(<<"et">>)
         ELSE IF n = "DOCMOST_FORMAT" THEN Some(<<"json">>)
         ELSE Some(<<"es">>)]}

\* The configuration file: none, one that login wrote, one with a format
\* and a space of the user's.
SessionConfigFiles ==
    {NoConfigFile,
     save_config(Put(DefaultConfig, "url", Some(<<"old", "/", "api">>))),
     ConfigFileOf([k \in {"url", "default_format", "default_space"} |->
                      IF k = "url" THEN Some(<<"old", "/", "api">>)
                      ELSE IF k = "default_format" THEN Some(<<"plain">>)
                      ELSE Some(<<"s0">>)])}

SessionUrls == {<<"h">>, <<"h", "/", "/">>, <<"h", "/", "api", "/">>, <<"g", "/", "api">>}

\* Answers to the login: a token in the cookie, a token in the body, no
\* token, a body that is a list, a body that is no JSON, 401, 500 with a
\* cookie, 302, and no answer.
SessionLoginAnswers ==
    {LoginResponse(200, Some(<<"c">>), JMap(EmptyDict)),
     LoginResponse(200, None, JMap([k \in {"token"} |-> Word("t1")])),
     LoginResponse(200, None, JMap(EmptyDict)),
     LoginResponse(200, None, JList(<<>>)),
     TextResponse(200, <<"ok">>),
     LoginResponse(401, None, JMap(EmptyDict)),
     LoginResponse(500, Some(<<"c">>), JMap([k \in {"token"} |-> Word("t1")])),
     LoginResponse(302, Some(<<"c">>), JMap(EmptyDict)),
     NoResponse}

InitSession ==
    /\ environ \in SessionEnvirons
    /\ configFile \in SessionConfigFiles
    /\ tokenFile \in {NoTokenFile, save_token(<<"old">>)}
    /\ Idle

NextSession ==
    \/ \E u \in SessionUrls, a \in SessionLoginAnswers :
          wire = <<>> /\ cmd.pc = "idle" /\ cmd.name # "logout" /\ Login(u, a)
    \/ Logout
    \/ \E a \in PlainAnswers :
          RunCommand(Command("pages info", <<"/", "pages", "/", "info">>, "pageId", "item", ""),
                     a)

SpecSession == InitSession /\ [][NextSession]_vars

-----------------------------------------------------------------------------
(* Properties of login and logout (SpecSession).                           *)

\* The step is a run of login.
LoginStep == wire = <<>> /\ Len(wire') = 1 /\ wire'[1].op = "login"

RECURSIVE WithoutTrailingSlashes(_)
WithoutTrailingSlashes(url) ==
    IF url # <<>> /\ url[Len(url)] = "/"
    THEN WithoutTrailingSlashes(SubSeq(url, 1, Len(url) - 1))
    ELSE url

\* The entered URL with trailing slashes stripped and /api appended unless
\* already there.
EnteredApiUrl(url) ==
    LET base == WithoutTrailingSlashes(url)
    IN  IF Len(base) >= 2 /\ SubSeq(base, Len(base) - 1, Len(base)) = <<"/", "api">>
        THEN base
        ELSE base \o <<"/", "api">>

LoginUrlOf(url) == EnteredApiUrl(url) \o <<"/", "auth", "/", "login">>

\* The token the answer offers: the cookie's, else the body's.
OfferedToken(answer) ==
    IF Truthy(answer.cookie) THEN answer.cookie.v ELSE answer.json.m["token"].s

\* C27: a login that ends with a non-zero exit status leaves the token file
\* and the configuration file as they were; a login that ends with 0 leaves
\* the token file holding the extracted token and the configuration's url
\* the entered URL, trailing slashes stripped and /api appended unless
\* already there.
C27_LoginAllOrNothing ==
    [][LoginStep =>
         /\ exitCode' # 0 => (tokenFile' = tokenFile /\ configFile' = configFile)
         /\ exitCode' = 0 =>
               /\ tokenFile'.exists
               /\ tokenFile'.text = OfferedToken(lastResponse')
               /\ configFile'.exists
               /\ \E u \in SessionUrls : wire'[1].url = LoginUrlOf(u)
               /\ \A u \in SessionUrls :
                     wire'[1].url = LoginUrlOf(u) =>
                        configFile'.m["url"] = Some(EnteredApiUrl(u))
         /\ exitCode' \in {0, 1}]_vars

\* A login over an older token and configuration succeeded.
C27_Witness ==
    /\ Len(wire) = 1
    /\ wire[1].op = "login"
    /\ wire[1].url = LoginUrlOf(<<"h", "/", "/">>)
    /\ exitCode = 0
    /\ tokenFile.text = <<"t1">>
    /\ configFile.m["url"] = Some(<<"h", "/", "api">>)
    /\ cmd.name = ""

\* C28 as stated: after logout, whichever message it printed, get_token
\* resolves to no credential and is_authenticated is false, and a client
\* constructed afterwards sends no Authorization header.
C28_LogoutInvalidates ==
    /\ [](cmd.name = "logout" =>
            /\ get_token(environ, tokenFile).none
            /\ ~is_authenticated(environ, tokenFile))
    /\ [][(cmd.name = "logout" /\ wire' # wire) =>
            "Authorization" \notin DOMAIN wire'[Len(wire')].headers]_vars

\* C28, amended: after logout the token file does not exist; and when the
\* environment holds no DOCMOST_TOKEN, get_token resolves to no credential,
\* is_authenticated is false and a client constructed afterwards sends no
\* Authorization header.
C28_LogoutInvalidatesAmended ==
    /\ [](cmd.name = "logout" =>
            /\ ~tokenFile.exists
            /\ ~Truthy(environ["DOCMOST_TOKEN"]) =>
                  /\ get_token(environ, tokenFile).none
                  /\ ~is_authenticated(environ, tokenFile))
    /\ [][(cmd.name = "logout" /\ wire' # wire /\ ~Truthy(environ["DOCMOST_TOKEN"])) =>
            "Authorization" \notin DOMAIN wire'[Len(wire')].headers]_vars

\* A logout after a successful login, with no token in the environment,
\* that deleted the token file.
C28_Witness ==
    /\ cmd.name = "logout"
    /\ ~Truthy(environ["DOCMOST_TOKEN"])
    /\ Len(wire) = 1
    /\ wire[1].op = "login"
    /\ Len(stdout) = 2
    /\ stdout[2].text = "Logged out successfully"
    /\ ~tokenFile.exists

\* C30: a successful login leaves every key of the configuration file other
\* than url with the value the file had, whatever the environment holds.
C30_LoginChangesOnlyUrl ==
    [][(LoginStep /\ exitCode' = 0 /\ configFile.exists) =>
          \A k \in DOMAIN configFile.m \ {"url"} :
              /\ k \in DOMAIN configFile'.m
              /\ configFile'.m[k] = configFile.m[k]]_vars

=============================================================================
